---- MODULE Spec2Model ----
(***************************************************************************)
(* Room lifecycle, presence/nickname registry, message ingest and the      *)
(* auto-vanish worker of the LinkChat backend, as a state machine.         *)
(*                                                                         *)
(* Handlers are asynchronous: a handler run is a task that advances from   *)
(* one await to the next; tasks of any connections interleave at awaits.   *)
(* Time is in milliseconds, as Date.now() in the source.                   *)
(***************************************************************************)
EXTENDS Integers, Sequences, FiniteSets, TLC

(* ------------------------------ bounds -------------------------------- *)
\* message ids the store can hand out in one run (uuidv4 is modelled by a counter)
MaxMsgs == 3
\* sendMessage requests accepted for processing in one run
MaxSends == 3
\* latest clock value of the chat specifications, in halves of the dedup window
MaxChatTicks == 3
\* latest time the owner leaves in the auto-vanish specification, in half intervals
MaxLockTicks == 2
\* random 3-digit suffixes the model draws from: 0 .. NumSuffix-1 (of 0 .. 999)
NumSuffix == 2
\* calls of validatePairingCode in one behaviour
MaxValidations == 3
\* steps of the clock in the pairing specification
MaxPairTicks == 2
\* HTTP requests of one behaviour that pass through rateLimiter
MaxRequests == 3
\* steps of the clock in the rate-limit specification
MaxRateTicks == 3
\* rooms one find of the expiry sweep returns (.limit(1000), scaled to RoomCodes)
CleanupBatch == 1

(* ------------------------- program constants -------------------------- *)
AUTO_VANISH_HOURS == 24
AUTO_VANISH_INTERVAL_MS == 300000
DEFAULT_ROOM_EXP_HOURS == 24
SWEEP_LIMIT == 100
RECOVERY_LIMIT == 500
TEXT_DEDUP_WINDOW_MS == 5000
SEND_MAX_REQUESTS == 30
SEND_WINDOW_MS == 60000
CREATE_ROOM_MAX_REQUESTS == 5
CREATE_ROOM_WINDOW_MS == 60000
PAIRING_CODE_EXPIRY_SECONDS == 300
NICK_MAX_ATTEMPTS == 20
SUFFIX_SPACE == 1000
HourMs == 60 * 60 * 1000

(* ----------------------------- identities ----------------------------- *)
Users == {"u1", "u2"}
Conns == {"c1", "c2"}
Tasks == {"t1", "t2"}
RoomCodes == {"1001", "1002"}
MsgIds == 1 .. MaxMsgs
NoDate == 0 - 1
NoRoom == [absent |-> TRUE]
NoMsg == [absent |-> TRUE]
NoCode == ""
SystemUser == "system"

Emojis == {"+1", "heart"}

(* Strings are sequences over a three-letter alphabet: a printable letter, *)
(* a blank and a control character.                                        *)
RawContents == {<<"h">>, <<"CTL", "h">>, <<"SP">>}

RECURSIVE StripControl(_)
StripControl(s) ==
  IF s = <<>> THEN <<>>
  ELSE IF Head(s) = "CTL" THEN StripControl(Tail(s))
  ELSE <<Head(s)>> \o StripControl(Tail(s))

RECURSIVE TrimLeft(_)
TrimLeft(s) ==
  IF s = <<>> THEN <<>>
  ELSE IF Head(s) = "SP" THEN TrimLeft(Tail(s)) ELSE s

RECURSIVE TrimRight(_)
TrimRight(s) ==
  IF s = <<>> THEN <<>>
  ELSE IF s[Len(s)] = "SP" THEN TrimRight(SubSeq(s, 1, Len(s) - 1)) ELSE s

Trim(s) == TrimRight(TrimLeft(s))

\* sanitizeText: drop control characters, then trim
sanitizeText(s) == Trim(StripControl(s))

(* ------------------------------- state -------------------------------- *)
VARIABLES
  now,        \* Date.now()
  expHours,   \* env.DEFAULT_ROOM_EXP_HOURS of this deployment
  dbReady,    \* mongoose.connection.readyState === 1
  rooms,      \* Room collection: code -> record or NoRoom
  msgs,       \* Message collection: id -> record or NoMsg
  nextId,     \* next message id (uuidv4)
  auth,       \* socket.handshake.auth.userId of each connection
  user,       \* the SocketUser session object of each connection
  group,      \* io.sockets.adapter.rooms: code -> set of connections
  redisUp,    \* redis && isRedisAvailable()
  presence,   \* redis set room:<code>:users
  userHash,   \* redis hash user:<id>
  rate,       \* redis key socket_rate_limit:sendMessage:<socket>
  pairing,    \* redis key pairing:<code>
  pc,         \* where each task stands in its handler
  tconn,      \* the connection a task serves
  loc,        \* the handler's local variables
  out,        \* what the handler last told its caller (error / ack)
  emitted,    \* events broadcast to room groups
  worker,     \* the auto-vanish worker
  hist        \* history: counts and logs the properties refer to

vars == <<now, expHours, dbReady, rooms, msgs, nextId, auth, user, group, redisUp,
          presence, userHash, rate, pairing, pc, tconn, loc, out, emitted, worker, hist>>

storeVars == <<rooms, msgs, nextId>>
redisVars == <<presence, userHash, rate, pairing>>
sessionVars == <<user, group>>
envVars == <<now, expHours, dbReady, redisUp, auth>>

NoLoc == [none |-> TRUE]
NoOut == [res |-> "none", mid |-> 0]
NoHash == [absent |-> TRUE]
NoRate == [count |-> 0, expireAt |-> NoDate]
PairingCodes == {"123456"}
NoPairing == [absent |-> TRUE]
NoPairings == [k \in PairingCodes |-> NoPairing]

\* RoomModel.findOne({code})
findRoom(code) == IF code \in RoomCodes THEN rooms[code] ELSE NoRoom
RoomExists(code) == findRoom(code) # NoRoom
MsgExists(m) == m \in MsgIds /\ msgs[m] # NoMsg
StoredMsgs == {m \in MsgIds : msgs[m] # NoMsg}
RoomMsgs(code) == {m \in StoredMsgs : msgs[m].roomCode = code}

\* the check on the claimed room code alone
ensureUserInRoom_SessionOnly(c) == user[c].roomCode # NoCode

\* ensureUserInRoom: the session names a room and the socket is in its group
ensureUserInRoom(c) ==
  /\ user[c].roomCode # NoCode
  /\ c \in group[user[c].roomCode]

\* socket.handshake.auth?.userId || user.userId
AuthUserId(c) == IF auth[c] # "" THEN auth[c] ELSE user[c].userId

\* a pass of the worker (a run of processAutoVanish or of recoverStuckRooms):
\* the time it captured, and per selected room how far its deletion has come
Passes == {"sweep", "recover"}
NoPass == [pc |-> "idle", queryAt |-> NoDate, stage |-> [r \in RoomCodes |-> "none"],
          seen |-> [r \in RoomCodes |-> NoRoom]]
WorkerOff == [pc |-> "off", nextSweep |-> NoDate, sweep |-> NoPass, recover |-> NoPass]

NoVanish == [by |-> "none", at |-> NoDate, queryAt |-> NoDate, seen |-> NoRoom,
             last |-> NoRoom]
\* the callers' addresses that key the HTTP counters
HttpKeys == {"ip1", "ip2"}

NoHist ==
  [sends |-> 0,
   lockWrites |-> [r \in RoomCodes |-> 0],
   lockedAt |-> [r \in RoomCodes |-> NoDate],
   ended |-> [r \in RoomCodes |-> FALSE],
   bootAt |-> NoDate,
   bootRooms |-> [r \in RoomCodes |-> NoRoom],
   vanish |-> [r \in RoomCodes |-> NoVanish],
   proposed |-> [c \in Conns |-> ""],
   vanishedTo |-> [r \in RoomCodes |-> {}],
   admitted |-> [c \in Conns |-> 0],
   failed |-> [k \in Conns \cup HttpKeys |-> FALSE],
   requests |-> 0,
   validations |-> 0,
   paired |-> [k \in PairingCodes |-> 0],
   purge |-> [r \in RoomCodes |-> <<>>],
   isAdmin |-> [t \in Tasks |-> FALSE],
   lastReaction |-> [u \in Users |-> [e \in Emojis |-> "none"]]]

\* the history with one more step of a deletion path on a room
Logged(path, code, step) ==
  [hist EXCEPT !.purge[code] = Append(@, [by |-> path, step |-> step])]

Finish(t, res, mid) ==
  /\ pc' = [pc EXCEPT ![t] = "idle"]
  /\ loc' = [loc EXCEPT ![t] = NoLoc]
  /\ out' = [out EXCEPT ![t] = [res |-> res, mid |-> mid]]

Goto(t, label, l) ==
  /\ pc' = [pc EXCEPT ![t] = label]
  /\ loc' = [loc EXCEPT ![t] = l]
  /\ out' = out

Emit(ev, roomCode, mid) == [ev |-> ev, room |-> roomCode, mid |-> mid]
\* io.to(roomCode).emit(ev, ...): an empty room name reaches nobody
Broadcast(ev, roomCode, mid) == IF roomCode = NoCode THEN {} ELSE {Emit(ev, roomCode, mid)}

(* ---------------------------- nicknames ------------------------------- *)
\* A nickname is a base string with an optional "#ddd" suffix.
NoSfx == 0 - 1
ProposedNames == {"Nova", "nova", "Anonymous"}
Nick(b, s) == [base |-> b, sfx |-> s]
Anonymous == Nick("Anonymous", NoSfx)

\* String.prototype.toLowerCase on the model's strings
LowerStr(b) ==
  CASE b = "Nova" -> "nova"
    [] b = "nova" -> "nova"
    [] b = "Anonymous" -> "anonymous"
    [] b = "System" -> "system"
    [] OTHER -> b

toLowerCase(n) == [base |-> LowerStr(n.base), sfx |-> n.sfx]

\* Date.now().toString().slice(-3)
TimestampSuffix(t) == t % SUFFIX_SPACE

\* source 1: nicknames of the live sockets of the room
SocketNicknames(code, excludeUserId) ==
  {toLowerCase(user[c].nickname) :
     c \in {d \in group[code] : user[d].userId # excludeUserId /\ user[d].nickname # Anonymous}}

\* source 2: the presence hash of the coordination store
RedisNicknames(code, excludeUserId) ==
  {toLowerCase(userHash[u].nickname) :
     u \in {v \in presence[code] : v # excludeUserId /\ userHash[v] # NoHash
                                    /\ userHash[v].nickname # Anonymous}}

\* source 3: distinct nicknames of the room's message history
MongoNicknames(code, excludeUserId) ==
  {toLowerCase(msgs[m].nickname) :
     m \in {k \in RoomMsgs(code) : msgs[k].userId # excludeUserId /\ msgs[k].nickname # Anonymous}}

\* the loop of random suffixes, then the time-derived fallback: every nickname
\* the loop can return from attempt n on
RECURSIVE SuffixAttempts(_, _, _, _)
SuffixAttempts(baseNickname, existingNicknames, attempts, t) ==
  IF attempts >= NICK_MAX_ATTEMPTS
  THEN {Nick(baseNickname.base, TimestampSuffix(t))}
  ELSE LET candidates == {Nick(baseNickname.base, s) : s \in 0 .. (NumSuffix - 1)}
           free == {n \in candidates : toLowerCase(n) \notin existingNicknames}
       IN  free \cup (IF free # candidates
                      THEN SuffixAttempts(baseNickname, existingNicknames, attempts + 1, t)
                      ELSE {})

\* ensureNicknameUniqueInRoom once the three sources are read
ResolveNickname(baseNickname, existingNicknames, t) ==
  IF toLowerCase(baseNickname) \notin existingNicknames
  THEN {baseNickname}
  ELSE SuffixAttempts(baseNickname, existingNicknames, 0, t)

(* ------------------------------ joinRoom ------------------------------ *)
\* joinRoom up to the room lookup being issued
\* joinRoom up to the room lookup being issued: a senderId the client supplies
\* replaces the session's userId before the room is looked up
JoinStartAs(t, c, code, nickname, senderId) ==
  /\ pc[t] = "idle"
  /\ dbReady
  /\ tconn' = [tconn EXCEPT ![t] = c]
  /\ user' = IF senderId = "" THEN user ELSE [user EXCEPT ![c].userId = senderId]
  /\ Goto(t, "join_room", [code |-> code, nickname |-> Nick(nickname, NoSfx)])
  /\ hist' = [hist EXCEPT !.proposed[c] = nickname]
  /\ UNCHANGED <<storeVars, envVars, group, redisVars, emitted, worker>>

\* joinRoom without a senderId
JoinStart(t, c, code, nickname) == JoinStartAs(t, c, code, nickname, "")

\* the expiry check left out
RoomExpired_Never(room, t) == FALSE

\* new Date() > room.expiresAt
RoomExpired(room, t) == t > room.expiresAt

\* getRoomByCode returns: not found / expired end the handler
JoinRoomRead(t) ==
  /\ pc[t] = "join_room"
  /\ LET code == loc[t].code IN
       \/ /\ ~RoomExists(code)
          /\ Finish(t, "room_not_found", 0)
       \/ /\ RoomExists(code)
          /\ RoomExpired(rooms[code], now)
          /\ Finish(t, "room_expired", 0)
       \/ /\ RoomExists(code)
          /\ ~RoomExpired(rooms[code], now)
          /\ Goto(t, "join_nick_sockets", loc[t])
  /\ UNCHANGED <<storeVars, envVars, sessionVars, redisVars, tconn, emitted, worker, hist>>

\* ensureNicknameUniqueInRoom, step 1: io.in(room).fetchSockets()
JoinNickSockets(t) ==
  /\ pc[t] = "join_nick_sockets"
  /\ LET c == tconn[t]
         l == [code |-> loc[t].code, nickname |-> loc[t].nickname,
               existing |-> SocketNicknames(loc[t].code, user[c].userId)]
     IN  Goto(t, IF redisUp THEN "join_nick_redis" ELSE "join_nick_mongo", l)
  /\ UNCHANGED <<storeVars, envVars, sessionVars, redisVars, tconn, emitted, worker, hist>>

\* step 2: smembers room:<code>:users and hget user:<id> nickname
JoinNickRedis(t) ==
  /\ pc[t] = "join_nick_redis"
  /\ LET c == tconn[t] IN
       Goto(t, "join_nick_mongo",
            [loc[t] EXCEPT !.existing = @ \cup RedisNicknames(loc[t].code, user[c].userId)])
  /\ UNCHANGED <<storeVars, envVars, sessionVars, redisVars, tconn, emitted, worker, hist>>

\* step 3: distinct('nickname') returns; the name is resolved, the session is
\* written and the socket joins the group, all before the next await
JoinNickMongo(t) ==
  /\ pc[t] = "join_nick_mongo"
  /\ LET c == tconn[t]
         code == loc[t].code
         existing == loc[t].existing \cup MongoNicknames(code, user[c].userId)
     IN  \E nickname \in ResolveNickname(loc[t].nickname, existing, now) :
           /\ user' = [user EXCEPT ![c] = [userId |-> @.userId, nickname |-> nickname,
                                           roomCode |-> code]]
           /\ group' = [r \in RoomCodes |->
                          IF r = code THEN group[r] \cup {c}
                          ELSE IF r = user[c].roomCode THEN group[r] \ {c}
                          ELSE group[r]]
           /\ Goto(t, IF redisUp THEN "join_redis" ELSE "join_msgs", [code |-> code])
  /\ UNCHANGED <<storeVars, envVars, redisVars, tconn, emitted, worker, hist>>

\* sadd room:<code>:users, hset user:<id> {nickname, roomCode}
JoinRedis(t) ==
  /\ pc[t] = "join_redis"
  /\ LET c == tconn[t] code == loc[t].code IN
       /\ presence' = [presence EXCEPT ![code] = @ \cup {user[c].userId}]
       /\ userHash' = [userHash EXCEPT ![user[c].userId] =
                         [nickname |-> user[c].nickname, roomCode |-> code]]
  /\ Goto(t, "join_msgs", loc[t])
  /\ UNCHANGED <<storeVars, envVars, sessionVars, rate, pairing, tconn, emitted, worker, hist>>

\* the join with userCount always taken from the group
JoinMsgs_CountsSockets(t) ==
  /\ pc[t] = "join_msgs"
  /\ emitted' = emitted \cup {Emit("userJoined", loc[t].code, 0),
                               Emit("userCount", loc[t].code, Cardinality(group[loc[t].code]))}
  /\ Finish(t, "roomJoined", 0)
  /\ UNCHANGED <<storeVars, envVars, sessionVars, redisVars, tconn, worker, hist>>

\* getRoomMessages returns: roomJoined to the caller, userJoined to the others,
\* then userCount to the room (scard of the presence set with a coordination
\* store, else the size of the group; the count travels in the event's number)
JoinMsgs(t) ==
  /\ pc[t] = "join_msgs"
  /\ LET code == loc[t].code
         userCount == IF redisUp THEN Cardinality(presence[code])
                      ELSE Cardinality(group[code])
     IN  emitted' = emitted \cup {Emit("userJoined", code, 0),
                                  Emit("userCount", code, userCount)}
  /\ Finish(t, "roomJoined", 0)
  /\ UNCHANGED <<storeVars, envVars, sessionVars, redisVars, tconn, worker, hist>>


(* ----------------------------- messages ------------------------------- *)
LockNotice == <<"Admin has left. Room locked. Auto-vanish in 24h.">>
AdminPlaceholder == <<"[Message deleted by admin]">>

NewMessage(roomCode, userId, nickname, content, type, hasFile, createdAt, expiresAt) ==
  [roomCode |-> roomCode, userId |-> userId, nickname |-> nickname, content |-> content,
   type |-> type, hasFile |-> hasFile, isPinned |-> FALSE, deletedByAdmin |-> FALSE,
   reactions |-> {}, createdAt |-> createdAt, editedAt |-> NoDate,
   expiresAt |-> expiresAt]

\* the query of the text idempotency check: same room, sender and content,
\* type text, createdAt >= since
TextDuplicates(roomCode, userId, content, since) ==
  {m \in StoredMsgs : /\ msgs[m].roomCode = roomCode
                      /\ msgs[m].userId = userId
                      /\ msgs[m].type = "text"
                      /\ msgs[m].content = content
                      /\ msgs[m].createdAt >= since}

\* the arguments of that query, read from the session when it is issued
DedupQuery(c, content) ==
  [content |-> content, code |-> user[c].roomCode, userId |-> user[c].userId,
   since |-> now - TEXT_DEDUP_WINDOW_MS]

(* ---------------------------- sendMessage ----------------------------- *)
\* sendMessage up to the room lookup being issued
SendStart(t, c, raw) ==
  /\ pc[t] = "idle"
  /\ dbReady
  /\ hist.sends < MaxSends
  /\ hist' = [hist EXCEPT !.sends = @ + 1]
  /\ tconn' = [tconn EXCEPT ![t] = c]
  /\ IF ~ensureUserInRoom(c)
     THEN Finish(t, "not_in_room", 0)
     ELSE Goto(t, "send_room", [raw |-> raw, code |-> user[c].roomCode])
  /\ UNCHANGED <<storeVars, envVars, sessionVars, redisVars, emitted, worker>>

\* the lock check left out: every room passes
RoomIsLocked_Unchecked(room) == FALSE

\* the lock check on the room getRoomByCode returned
RoomIsLocked(room) == room # NoRoom /\ room.isLocked

\* getRoomByCode returns: the lock check, the payload checks, sanitizing,
\* then the rate limiter is called
SendRoomRead(t) ==
  /\ pc[t] = "send_room"
  /\ LET c == tconn[t]
         room == findRoom(loc[t].code)
         content == sanitizeText(loc[t].raw)
     IN  IF RoomIsLocked(room) THEN Finish(t, "room_locked", 0)
         ELSE IF Trim(loc[t].raw) = <<>> THEN Finish(t, "empty_content", 0)
         ELSE IF user[c].roomCode = NoCode THEN Finish(t, "invalid_room_code", 0)
         ELSE IF content = <<>> THEN Finish(t, "empty_after_sanitize", 0)
         ELSE IF redisUp THEN Goto(t, "send_rate", [content |-> content])
         ELSE Goto(t, "send_dedup", DedupQuery(c, content))
  /\ UNCHANGED <<storeVars, envVars, sessionVars, redisVars, tconn, emitted, worker, hist>>

\* an off-by-one ceiling
WithinLimit_OneMore(count, maxRequests) == count <= maxRequests + 1

\* return count <= maxRequests
WithinLimit(count, maxRequests) == count <= maxRequests

\* socketRateLimiter: redis.incr; the first count of a window arms the expiry.
\* hist.admitted counts the sends admitted since the key was created.
SendRate(t) ==
  /\ pc[t] = "send_rate"
  /\ LET c == tconn[t]
         count == rate[c].count + 1
     IN  /\ rate' = [rate EXCEPT ![c].count = count]
         /\ IF count = 1
            THEN /\ hist' = [hist EXCEPT !.admitted[c] = 0]
                 /\ Goto(t, "send_expire", loc[t])
            ELSE IF ~WithinLimit(count, SEND_MAX_REQUESTS)
            THEN /\ hist' = hist
                 /\ Finish(t, "rate_limited", 0)
            ELSE /\ hist' = [hist EXCEPT !.admitted[c] = @ + 1]
                 /\ Goto(t, "send_dedup", DedupQuery(c, loc[t].content))
  /\ UNCHANGED <<storeVars, envVars, sessionVars, presence, userHash, pairing, tconn, emitted,
                 worker>>

\* redis.expire(key, windowMs / 1000) after the first increment (a key that
\* is gone by then stays gone); the count compared with the ceiling is 1
SendExpire(t) ==
  /\ pc[t] = "send_expire"
  /\ LET c == tconn[t] IN
       /\ rate' = IF rate[c].count = 0 THEN rate
                  ELSE [rate EXCEPT ![c].expireAt = now + SEND_WINDOW_MS]
       /\ hist' = [hist EXCEPT !.admitted[c] = @ + 1]
       /\ Goto(t, "send_dedup", DedupQuery(c, loc[t].content))
  /\ UNCHANGED <<storeVars, envVars, sessionVars, presence, userHash, pairing, tconn, emitted,
                 worker>>

\* the limiter gives up its ceiling when the store fails
FailOpen_Closed == FALSE

\* catch: return true / next()
FailOpen == TRUE

\* redis.incr throws: the catch block answers for the limiter
SendRateThrows(t) ==
  /\ pc[t] = "send_rate"
  /\ LET c == tconn[t] IN
       /\ hist' = [hist EXCEPT !.failed[c] = TRUE]
       /\ IF FailOpen THEN Goto(t, "send_dedup", DedupQuery(c, loc[t].content))
          ELSE Finish(t, "rate_limited", 0)
  /\ UNCHANGED <<storeVars, envVars, sessionVars, redisVars, tconn, emitted, worker>>

\* redis.expire throws after the increment succeeded: the key keeps its count
\* and no expiry, the catch block answers
SendExpireThrows(t) ==
  /\ pc[t] = "send_expire"
  /\ LET c == tconn[t] IN
       /\ hist' = [hist EXCEPT !.failed[c] = TRUE]
       /\ IF FailOpen THEN Goto(t, "send_dedup", DedupQuery(c, loc[t].content))
          ELSE Finish(t, "rate_limited", 0)
  /\ UNCHANGED <<storeVars, envVars, sessionVars, redisVars, tconn, emitted, worker>>

(* --------------------------- HTTP rateLimiter ------------------------- *)
\* rateLimiter('createRoom') up to redis.incr being issued; without a ready
\* store next() is called
rateLimiter(t, k) ==
  /\ pc[t] = "idle"
  /\ hist.requests < MaxRequests
  /\ hist' = [hist EXCEPT !.requests = @ + 1]
  /\ IF ~redisUp THEN Finish(t, "next", 0)
     ELSE Goto(t, "limiter_incr", [key |-> k])
  /\ UNCHANGED <<storeVars, envVars, sessionVars, redisVars, tconn, emitted, worker>>

\* redis.incr returns: the first count arms the expiry, a count above the
\* ceiling answers 429, otherwise next()
LimiterIncr(t) ==
  /\ pc[t] = "limiter_incr"
  /\ LET k == loc[t].key
         count == rate[k].count + 1
     IN  /\ rate' = [rate EXCEPT ![k].count = count]
         /\ IF count = 1 THEN Goto(t, "limiter_expire", loc[t])
            ELSE IF count > CREATE_ROOM_MAX_REQUESTS THEN Finish(t, "429", 0)
            ELSE Finish(t, "next", 0)
  /\ UNCHANGED <<storeVars, envVars, sessionVars, presence, userHash, pairing, tconn, emitted,
                 worker, hist>>

\* redis.expire returns: the count it compares is 1
LimiterExpire(t) ==
  /\ pc[t] = "limiter_expire"
  /\ LET k == loc[t].key IN
       rate' = IF rate[k].count = 0 THEN rate
               ELSE [rate EXCEPT ![k].expireAt = now + CREATE_ROOM_WINDOW_MS]
  /\ Finish(t, "next", 0)
  /\ UNCHANGED <<storeVars, envVars, sessionVars, presence, userHash, pairing, tconn, emitted,
                 worker, hist>>

\* redis.incr or redis.expire throws: the catch block answers
LimiterThrows(t) ==
  /\ pc[t] \in {"limiter_incr", "limiter_expire"}
  /\ hist' = [hist EXCEPT !.failed[loc[t].key] = TRUE]
  /\ IF FailOpen THEN Finish(t, "next", 0) ELSE Finish(t, "429", 0)
  /\ UNCHANGED <<storeVars, envVars, sessionVars, redisVars, tconn, emitted, worker>>

\* the idempotency findOne returns: a recent duplicate is re-broadcast and
\* acknowledged, otherwise createMessage is called
SendDedup(t) ==
  /\ pc[t] = "send_dedup"
  /\ LET c == tconn[t]
         dups == TextDuplicates(loc[t].code, loc[t].userId, loc[t].content, loc[t].since)
     IN  \/ /\ dups # {}
            /\ \E m \in dups :
                 /\ emitted' = emitted \cup Broadcast("newMessage", user[c].roomCode, m)
                 /\ Finish(t, "ack", m)
         \/ /\ dups = {}
            /\ emitted' = emitted
            /\ Goto(t, "send_create",
                    [content |-> loc[t].content, code |-> user[c].roomCode,
                     userId |-> user[c].userId, nickname |-> user[c].nickname])
  /\ UNCHANGED <<storeVars, envVars, sessionVars, redisVars, tconn, worker, hist>>

\* createMessage: the room is read for its expiresAt, the document is built
SendCreate(t) ==
  /\ pc[t] = "send_create"
  /\ LET room == findRoom(loc[t].code)
         expiresAt == IF room = NoRoom THEN NoDate ELSE room.expiresAt
     IN  Goto(t, "send_save",
              [doc |-> NewMessage(loc[t].code, loc[t].userId, loc[t].nickname,
                                  loc[t].content, "text", FALSE, now, expiresAt)])
  /\ UNCHANGED <<storeVars, envVars, sessionVars, redisVars, tconn, emitted, worker, hist>>

\* message.save() returns: newMessage is broadcast and the caller acknowledged;
\* a document without a room code fails validation and the caller gets the error
SendSave(t) ==
  /\ pc[t] = "send_save"
  /\ nextId <= MaxMsgs
  /\ IF loc[t].doc.roomCode = NoCode
     THEN /\ UNCHANGED <<msgs, nextId, emitted>>
          /\ Finish(t, "send_failed", 0)
     ELSE /\ msgs' = [msgs EXCEPT ![nextId] = loc[t].doc]
          /\ nextId' = nextId + 1
          /\ emitted' = emitted \cup Broadcast("newMessage", user[tconn[t]].roomCode, nextId)
          /\ Finish(t, "ack", nextId)
  /\ UNCHANGED <<rooms, envVars, sessionVars, redisVars, tconn, worker, hist>>


(* ---------------------------- deleteMessage --------------------------- *)
\* deleteMessage up to the message lookup being issued
DeleteStart(t, c, messageId, roomId) ==
  /\ pc[t] = "idle"
  /\ dbReady
  /\ tconn' = [tconn EXCEPT ![t] = c]
  /\ IF ~ensureUserInRoom(c)
     THEN Finish(t, "not_in_room", 0)
     ELSE Goto(t, "del_msg", [messageId |-> messageId,
                              roomId |-> IF roomId # NoCode THEN roomId ELSE user[c].roomCode])
  /\ UNCHANGED <<storeVars, envVars, sessionVars, redisVars, emitted, worker, hist>>

\* MessageModel.findOne({id}) returns; the room lookup is issued
DeleteMsgRead(t) ==
  /\ pc[t] = "del_msg"
  /\ IF ~MsgExists(loc[t].messageId)
     THEN Finish(t, "message_not_found", 0)
     ELSE Goto(t, "del_room", [messageId |-> loc[t].messageId, roomId |-> loc[t].roomId,
                               author |-> msgs[loc[t].messageId].userId])
  /\ UNCHANGED <<storeVars, envVars, sessionVars, redisVars, tconn, emitted, worker, hist>>

\* every permitted deletion removes the record
SoftDelete_Never(isAdmin, isOwnMessage) == FALSE

\* the admin branch: the owner deleting a message of somebody else
SoftDelete(isAdmin, isOwnMessage) == isAdmin /\ ~isOwnMessage

\* getRoomByCode returns: the permission check, then the update or the
\* delete is issued
DeleteRoomRead(t) ==
  /\ pc[t] = "del_room"
  /\ LET room == findRoom(loc[t].roomId)
         authUserId == AuthUserId(tconn[t])
         isAdmin == room.ownerId # "" /\ room.ownerId = authUserId
         isOwnMessage == loc[t].author = authUserId
     IN  IF room = NoRoom THEN Finish(t, "room_not_found", 0)
         ELSE IF ~(isOwnMessage \/ isAdmin) THEN Finish(t, "unauthorized", 0)
         ELSE Goto(t, "del_apply", [messageId |-> loc[t].messageId, roomId |-> loc[t].roomId,
                                    soft |-> SoftDelete(isAdmin, isOwnMessage)])
  /\ UNCHANGED <<storeVars, envVars, sessionVars, redisVars, tconn, emitted, worker, hist>>

\* the record after the admin's updateOne
AdminDeleted(message) ==
  [message EXCEPT !.deletedByAdmin = TRUE, !.content = AdminPlaceholder, !.type = "text",
                  !.hasFile = FALSE]

\* updateOne / deleteOne returns: a count of 0 is reported as a failure
DeleteApply(t) ==
  /\ pc[t] = "del_apply"
  /\ LET m == loc[t].messageId IN
       IF loc[t].soft
       THEN IF MsgExists(m) /\ AdminDeleted(msgs[m]) # msgs[m]
            THEN /\ msgs' = [msgs EXCEPT ![m] = AdminDeleted(@)]
                 /\ emitted' = emitted
                 /\ Goto(t, "del_fetch", loc[t])
            ELSE /\ UNCHANGED <<msgs, emitted>>
                 /\ Finish(t, "delete_failed", 0)
       ELSE IF MsgExists(m)
            THEN /\ msgs' = [msgs EXCEPT ![m] = NoMsg]
                 /\ emitted' = emitted \cup Broadcast("messageDeleted", loc[t].roomId, m)
                 /\ Finish(t, "deleted", m)
            ELSE /\ UNCHANGED <<msgs, emitted>>
                 /\ Finish(t, "delete_failed", 0)
  /\ UNCHANGED <<rooms, nextId, envVars, sessionVars, redisVars, tconn, worker, hist>>

\* the updated message is fetched and messageDeleted is broadcast
DeleteFetch(t) ==
  /\ pc[t] = "del_fetch"
  /\ emitted' = emitted \cup Broadcast("messageDeleted", loc[t].roomId, loc[t].messageId)
  /\ Finish(t, "deleted_by_admin", loc[t].messageId)
  /\ UNCHANGED <<storeVars, envVars, sessionVars, redisVars, tconn, worker, hist>>

(* ------------------------ delete_message alias ------------------------ *)
\* delete_message up to the message lookup being issued
delete_message(t, c, messageId, roomId) ==
  /\ pc[t] = "idle"
  /\ dbReady
  /\ tconn' = [tconn EXCEPT ![t] = c]
  /\ IF ~ensureUserInRoom(c)
     THEN Finish(t, "not_in_room", 0)
     ELSE Goto(t, "alias_msg", [messageId |-> messageId,
                                roomId |-> IF roomId # NoCode THEN roomId
                                           ELSE user[c].roomCode])
  /\ UNCHANGED <<storeVars, envVars, sessionVars, redisVars, emitted, worker, hist>>

\* MessageModel.findOne({id}) returns; the room lookup is issued
AliasMsgRead(t) ==
  /\ pc[t] = "alias_msg"
  /\ IF ~MsgExists(loc[t].messageId)
     THEN Finish(t, "message_not_found", 0)
     ELSE Goto(t, "alias_room", [messageId |-> loc[t].messageId, roomId |-> loc[t].roomId,
                                 author |-> msgs[loc[t].messageId].userId])
  /\ UNCHANGED <<storeVars, envVars, sessionVars, redisVars, tconn, emitted, worker, hist>>

\* getRoomByCode returns: the permission check (author or owner), then
\* MessageModel.deleteOne is issued for every permitted request
AliasRoomRead(t) ==
  /\ pc[t] = "alias_room"
  /\ LET room == findRoom(loc[t].roomId)
         authUserId == AuthUserId(tconn[t])
         canDelete == \/ loc[t].author = authUserId
                      \/ (room.ownerId # "" /\ room.ownerId = authUserId)
     IN  IF room = NoRoom THEN Finish(t, "room_not_found", 0)
         ELSE IF ~canDelete THEN Finish(t, "unauthorized", 0)
         ELSE Goto(t, "del_apply", [messageId |-> loc[t].messageId, roomId |-> loc[t].roomId,
                                    soft |-> FALSE])
  /\ UNCHANGED <<storeVars, envVars, sessionVars, redisVars, tconn, emitted, worker, hist>>

(* ----------------------------- pinMessage ----------------------------- *)
\* the pinMessage handler up to the service's updateMany being issued
PinStart(t, c, messageId) ==
  /\ pc[t] = "idle"
  /\ dbReady
  /\ tconn' = [tconn EXCEPT ![t] = c]
  /\ IF user[c].roomCode = NoCode
     THEN Finish(t, "not_in_room", 0)
     ELSE Goto(t, "pin_unpin", [messageId |-> messageId, roomCode |-> user[c].roomCode])
  /\ UNCHANGED <<storeVars, envVars, sessionVars, redisVars, emitted, worker, hist>>

\* updateMany({roomCode, isPinned: true}, {isPinned: false})
PinUnpinOthers(t) ==
  /\ pc[t] = "pin_unpin"
  /\ msgs' = [m \in MsgIds |->
                IF msgs[m] # NoMsg /\ msgs[m].roomCode = loc[t].roomCode /\ msgs[m].isPinned
                THEN [msgs[m] EXCEPT !.isPinned = FALSE] ELSE msgs[m]]
  /\ Goto(t, "pin_find", loc[t])
  /\ UNCHANGED <<rooms, nextId, envVars, sessionVars, redisVars, tconn, emitted, worker, hist>>

\* findOne({id, roomCode}) returns the document, or nothing
PinFind(t) ==
  /\ pc[t] = "pin_find"
  /\ LET m == loc[t].messageId IN
       IF MsgExists(m) /\ msgs[m].roomCode = loc[t].roomCode
       THEN Goto(t, "pin_save", [messageId |-> m, roomCode |-> loc[t].roomCode,
                                 wasPinned |-> msgs[m].isPinned])
       ELSE Finish(t, "message_not_found", 0)
  /\ UNCHANGED <<storeVars, envVars, sessionVars, redisVars, tconn, emitted, worker, hist>>

\* message.isPinned = true; message.save(): the field is written if the
\* assignment changed the loaded document; messagePinned is broadcast
PinSave(t) ==
  /\ pc[t] = "pin_save"
  /\ LET m == loc[t].messageId IN
       IF ~loc[t].wasPinned /\ ~MsgExists(m)
       THEN /\ UNCHANGED <<msgs, emitted>>
            /\ Finish(t, "pin_failed", 0)
       ELSE /\ msgs' = IF loc[t].wasPinned THEN msgs
                       ELSE [msgs EXCEPT ![m].isPinned = TRUE]
            /\ emitted' = emitted \cup Broadcast("messagePinned", user[tconn[t]].roomCode, m)
            /\ Finish(t, "pinned", m)
  /\ UNCHANGED <<rooms, nextId, envVars, sessionVars, redisVars, tconn, worker, hist>>

(* ----------------------------- leave_room ----------------------------- *)
\* leave_room up to the room lookup being issued
LeaveStart(t, c, roomId) ==
  /\ pc[t] = "idle"
  /\ dbReady
  /\ tconn' = [tconn EXCEPT ![t] = c]
  /\ IF user[c].roomCode = NoCode \/ user[c].roomCode # roomId
     THEN Finish(t, "not_in_specified_room", 0)
     ELSE Goto(t, "leave_room", [roomId |-> roomId])
  /\ UNCHANGED <<storeVars, envVars, sessionVars, redisVars, emitted, worker, hist>>

\* the owner-leaves guard of leave_room on the room getRoomByCode returned
OwnerLeaves(room, authUserId) ==
  /\ room # NoRoom
  /\ room.ownerId # ""
  /\ room.ownerId = authUserId
  /\ ~room.isLocked
  /\ ~room.isEnded

\* getRoomByCode returns: the owner of an unlocked room goes on to lock it
LeaveRoomRead(t) ==
  /\ pc[t] = "leave_room"
  /\ LET c == tconn[t] room == findRoom(loc[t].roomId) IN
       IF OwnerLeaves(room, AuthUserId(c))
       THEN Goto(t, "leave_lock", loc[t])
       ELSE Goto(t, "leave_cleanup", loc[t])
  /\ UNCHANGED <<storeVars, envVars, sessionVars, redisVars, tconn, emitted, worker, hist>>

\* lockRoom: findOneAndUpdate({code}, {isLocked: true, lockedAt: new Date()})
lockRoom(code) ==
  rooms' = [rooms EXCEPT ![code] = [@ EXCEPT !.isLocked = TRUE, !.lockedAt = now]]

\* lockRoom returns; a missing room throws and leave_room reports the failure
LeaveLock(t) ==
  /\ pc[t] = "leave_lock"
  /\ LET code == loc[t].roomId IN
       IF RoomExists(code)
       THEN /\ lockRoom(code)
            /\ hist' = [hist EXCEPT !.lockWrites[code] = @ + 1, !.lockedAt[code] = now]
            /\ Goto(t, "leave_sys_create", loc[t])
       ELSE /\ UNCHANGED <<rooms, hist>>
            /\ Finish(t, "failed_to_leave", 0)
  /\ UNCHANGED <<msgs, nextId, envVars, sessionVars, redisVars, tconn, emitted, worker>>

\* createMessage of the system notice: the room is read for its expiresAt
LeaveSysCreate(t) ==
  /\ pc[t] = "leave_sys_create"
  /\ LET code == loc[t].roomId
         room == findRoom(code)
         expiresAt == IF room = NoRoom THEN NoDate ELSE room.expiresAt
     IN  Goto(t, "leave_sys_save",
              [roomId |-> code,
               doc |-> NewMessage(code, SystemUser, Nick("System", NoSfx), LockNotice,
                                  "text", FALSE, now, expiresAt)])
  /\ UNCHANGED <<storeVars, envVars, sessionVars, redisVars, tconn, emitted, worker, hist>>

\* the notice is saved and broadcast, room_locked is broadcast
LeaveSysSave(t) ==
  /\ pc[t] = "leave_sys_save"
  /\ nextId <= MaxMsgs
  /\ msgs' = [msgs EXCEPT ![nextId] = loc[t].doc]
  /\ nextId' = nextId + 1
  /\ emitted' = emitted \cup {Emit("newMessage", loc[t].roomId, nextId),
                              Emit("room_locked", loc[t].roomId, 0)}
  /\ Goto(t, "leave_cleanup", [roomId |-> loc[t].roomId])
  /\ UNCHANGED <<rooms, envVars, sessionVars, redisVars, tconn, worker, hist>>

\* the leave side effects with the roomLeft confirmation sent in every case
LeaveCleanup_AlwaysConfirms(t) ==
  /\ pc[t] = "leave_cleanup"
  /\ LET c == tconn[t] code == loc[t].roomId uid == user[c].userId IN
       /\ presence' = IF redisUp THEN [presence EXCEPT ![code] = @ \ {uid}] ELSE presence
       /\ userHash' = IF redisUp /\ uid \in Users
                      THEN [userHash EXCEPT ![uid] = NoHash] ELSE userHash
       /\ group' = [group EXCEPT ![code] = @ \ {c}]
       /\ emitted' = emitted \cup {Emit("user_left", code, 0),
                                    Emit("userCount", code, Cardinality(group'[code]))}
       /\ user' = [user EXCEPT ![c].roomCode = NoCode]
       /\ Finish(t, "roomLeft", 0)
  /\ UNCHANGED <<storeVars, envVars, rate, pairing, tconn, worker, hist>>

\* handleUserLeaveRoom and the end of the handler that called it: presence
\* keys removed, the socket leaves the group, user_left goes to the others,
\* userCount (scard of the presence set with a coordination store, else the
\* size of the group; the count travels in the event's number) to the group,
\* roomLeft to the caller unless shouldEmitRoomLeft is false, and the
\* session's room code is cleared
LeaveCleanup(t) ==
  /\ pc[t] = "leave_cleanup"
  /\ LET c == tconn[t] code == loc[t].roomId uid == user[c].userId
         shouldEmitRoomLeft == IF "shouldEmitRoomLeft" \in DOMAIN loc[t]
                               THEN loc[t].shouldEmitRoomLeft ELSE TRUE
     IN
       /\ presence' = IF redisUp THEN [presence EXCEPT ![code] = @ \ {uid}] ELSE presence
       /\ userHash' = IF redisUp /\ uid \in Users
                      THEN [userHash EXCEPT ![uid] = NoHash] ELSE userHash
       /\ group' = [group EXCEPT ![code] = @ \ {c}]
       /\ LET userCount == IF redisUp THEN Cardinality(presence'[code])
                           ELSE Cardinality(group'[code])
          IN  emitted' = emitted \cup {Emit("user_left", code, 0),
                                       Emit("userCount", code, userCount)}
       /\ user' = [user EXCEPT ![c].roomCode = NoCode]
       /\ Finish(t, IF shouldEmitRoomLeft THEN "roomLeft" ELSE "disconnected", 0)
  /\ UNCHANGED <<storeVars, envVars, rate, pairing, tconn, worker, hist>>

(* ------------------------- auto-vanish worker ------------------------- *)
GraceMs == AUTO_VANISH_HOURS * HourMs

\* the 48-hour variant of the sweep's filter
SweepDue_DoubleGrace(room, t) ==
  /\ room # NoRoom
  /\ room.isLocked
  /\ room.lockedAt # NoDate /\ room.lockedAt < t - 2 * GraceMs
  /\ ~room.isEnded
  /\ room.expiresAt > t

\* the sweep's filter without its expiresAt clause
SweepDue_ExpiredToo(room, t) ==
  /\ room # NoRoom
  /\ room.isLocked
  /\ room.lockedAt # NoDate /\ room.lockedAt < t - GraceMs
  /\ ~room.isEnded

\* the filter of processAutoVanish's find: locked, lockedAt before t - 24h,
\* not ended, expiresAt still ahead of t
SweepDue(room, t) ==
  /\ room # NoRoom
  /\ room.isLocked
  /\ room.lockedAt # NoDate /\ room.lockedAt < t - GraceMs
  /\ ~room.isEnded
  /\ room.expiresAt > t

\* the recovery filter without its isEnded clause
RecoverDue_EndedToo(room, t) ==
  /\ room # NoRoom
  /\ room.isLocked
  /\ room.lockedAt # NoDate /\ room.lockedAt < t - GraceMs

\* the filter of recoverStuckRooms' find: the same without the expiresAt clause
RecoverDue(room, t) ==
  /\ room # NoRoom
  /\ room.isLocked
  /\ room.lockedAt # NoDate /\ room.lockedAt < t - GraceMs
  /\ ~room.isEnded

PassDue(p, room, t) == IF p = "sweep" THEN SweepDue(room, t) ELSE RecoverDue(room, t)
PassLimit(p) == IF p = "sweep" THEN SWEEP_LIMIT ELSE RECOVERY_LIMIT

\* .limit(n): the whole result if it has at most n rooms, else any n of them
Limited(S, n) ==
  IF Cardinality(S) <= n THEN {S} ELSE {T \in SUBSET S : Cardinality(T) = n}

\* a pass that was called with the store connected: its clock value is taken,
\* its find is issued
PassCalled == [NoPass EXCEPT !.pc = "query", !.queryAt = now]

InProgress(pass) == {r \in RoomCodes : pass.stage[r] \in {"room", "redis"}}
Unfinished(pass) == {r \in RoomCodes : pass.stage[r] \in {"msgs", "room", "redis"}}

\* the pass returns when its last room is done
Settle(pass) == IF Unfinished(pass) = {} THEN [pass EXCEPT !.pc = "idle"] ELSE pass

\* the find of a pass returns the rooms to delete
PassQuery(p) ==
  /\ worker.pc = "on"
  /\ worker[p].pc = "query"
  /\ \E sel \in Limited({r \in RoomCodes : PassDue(p, rooms[r], worker[p].queryAt)},
                       PassLimit(p)) :
       worker' = [worker EXCEPT ![p] =
         Settle([@ EXCEPT !.pc = "run",
                          !.stage = [r \in RoomCodes |-> IF r \in sel THEN "msgs" ELSE "none"],
                          !.seen = [r \in RoomCodes |-> IF r \in sel THEN rooms[r] ELSE NoRoom]])]
  /\ UNCHANGED <<storeVars, envVars, sessionVars, redisVars, pc, tconn, loc, out, emitted,
                 hist>>

\* permanentlyDeleteRoom, MessageModel.deleteMany({roomCode}); the sweep takes
\* its rooms one after the other, the recovery pass a batch at once
PassDeleteMessages(p, r) ==
  /\ worker[p].pc = "run"
  /\ worker[p].stage[r] = "msgs"
  /\ p = "sweep" => InProgress(worker[p]) = {}
  /\ msgs' = [m \in MsgIds |-> IF m \in RoomMsgs(r) THEN NoMsg ELSE msgs[m]]
  /\ worker' = [worker EXCEPT ![p].stage[r] = "room"]
  /\ UNCHANGED <<rooms, nextId, envVars, sessionVars, redisVars, pc, tconn, loc, out,
                 emitted, hist>>

\* a deletedCount of 0 throws
DeleteOneThrows_OnZero(deletedCount) == deletedCount = 0

\* what permanentlyDeleteRoom makes of deleteOne's deletedCount: 0 is logged
\* as "already deleted", 1 as deleted, neither throws
DeleteOneThrows(deletedCount) == FALSE

\* the pass aborts on the room that failed
AfterRoomFailure_Abort(pass, r) == [pass EXCEPT !.stage[r] = "failed", !.pc = "idle"]

\* the caller's catch around permanentlyDeleteRoom: the failure is logged and
\* the pass goes on with its other rooms
AfterRoomFailure(pass, r) == Settle([pass EXCEPT !.stage[r] = "failed"])

\* vanishedCount, the value a pass returns: the rooms for which
\* permanentlyDeleteRoom returned
vanishedCount(pass) == Cardinality({r \in RoomCodes : pass.stage[r] = "done"})

\* permanentlyDeleteRoom, RoomModel.deleteOne({code}); a count of 0 is logged
PassDeleteRoom(p, r) ==
  /\ worker[p].pc = "run"
  /\ worker[p].stage[r] = "room"
  /\ rooms' = [rooms EXCEPT ![r] = NoRoom]
  /\ hist' = IF rooms[r] = NoRoom THEN hist
             ELSE [hist EXCEPT !.vanish[r] = [by |-> p, at |-> now,
                                              queryAt |-> worker[p].queryAt,
                                              seen |-> worker[p].seen[r],
                                              last |-> rooms[r]]]
  /\ worker' = [worker EXCEPT ![p] =
       IF DeleteOneThrows(IF rooms[r] = NoRoom THEN 0 ELSE 1) THEN AfterRoomFailure(@, r)
       ELSE IF redisUp THEN [@ EXCEPT !.stage[r] = "redis"]
       ELSE Settle([@ EXCEPT !.stage[r] = "done"])]
  /\ UNCHANGED <<msgs, nextId, envVars, sessionVars, redisVars, pc, tconn, loc, out, emitted>>

\* permanentlyDeleteRoom, coordination-store cleanup: the room's presence set
\* and every user hash that names the room
PassRedisCleanup(p, r) ==
  /\ worker[p].pc = "run"
  /\ worker[p].stage[r] = "redis"
  /\ presence' = [presence EXCEPT ![r] = {}]
  /\ userHash' = [u \in Users |->
                    IF userHash[u] # NoHash /\ userHash[u].roomCode = r THEN NoHash
                    ELSE userHash[u]]
  /\ worker' = [worker EXCEPT ![p] = Settle([@ EXCEPT !.stage[r] = "done"])]
  /\ UNCHANGED <<storeVars, envVars, sessionVars, rate, pairing, pc, tconn, loc, out, emitted, hist>>

\* MessageModel.deleteMany or RoomModel.deleteOne rejects (the store fails):
\* permanentlyDeleteRoom rethrows and the room is not counted
PassDeleteFails(p, r) ==
  /\ worker[p].pc = "run"
  /\ worker[p].stage[r] \in {"msgs", "room"}
  /\ p = "sweep" => InProgress(worker[p]) \subseteq {r}
  /\ worker' = [worker EXCEPT ![p] = AfterRoomFailure(@, r)]
  /\ UNCHANGED <<storeVars, envVars, sessionVars, redisVars, pc, tconn, loc, out, emitted,
                 hist>>

PassStep(p) ==
  \/ PassQuery(p)
  \/ \E r \in RoomCodes : PassDeleteMessages(p, r)
  \/ \E r \in RoomCodes : PassDeleteRoom(p, r)
  \/ \E r \in RoomCodes : PassRedisCleanup(p, r)

\* startAutoVanishWorker: recoverStuckRooms() and processAutoVanish() are called
\* one after the other, each returns at once if the store is not connected;
\* then the interval timer is set
startAutoVanishWorker ==
  /\ worker.pc = "off"
  /\ worker' = [pc |-> "on", nextSweep |-> now + AUTO_VANISH_INTERVAL_MS,
                sweep |-> IF dbReady THEN PassCalled ELSE NoPass,
                recover |-> IF dbReady THEN PassCalled ELSE NoPass]
  /\ hist' = [hist EXCEPT !.bootAt = now, !.bootRooms = rooms]
  /\ UNCHANGED <<storeVars, envVars, sessionVars, redisVars, pc, tconn, loc, out, emitted>>

\* the interval timer fires: processAutoVanish is called (a sweep lasts far
\* less than the interval: the previous one has returned)
SweepTimer ==
  /\ worker.pc = "on"
  /\ worker.nextSweep <= now
  /\ worker.sweep.pc = "idle"
  /\ worker' = [worker EXCEPT !.nextSweep = @ + AUTO_VANISH_INTERVAL_MS,
                              !.sweep = IF dbReady THEN PassCalled ELSE NoPass]
  /\ UNCHANGED <<storeVars, envVars, sessionVars, redisVars, pc, tconn, loc, out, emitted,
                 hist>>

\* connectDatabase resolves: readyState becomes 1
DbConnected ==
  /\ ~dbReady
  /\ dbReady' = TRUE
  /\ UNCHANGED <<now, expHours, redisUp, auth, storeVars, sessionVars, redisVars, pc,
                 tconn, loc, out, emitted, worker, hist>>

\* the endRoom service: findOneAndUpdate({code}, {isEnded: true, ...})
endRoom(code) ==
  /\ dbReady
  /\ RoomExists(code)
  /\ ~rooms[code].isEnded
  /\ rooms' = [rooms EXCEPT ![code].isEnded = TRUE]
  /\ hist' = [hist EXCEPT !.ended[code] = TRUE]
  /\ UNCHANGED <<msgs, nextId, envVars, sessionVars, redisVars, pc, tconn, loc, out,
                 emitted, worker>>

\* cleanupExpiredRooms: rooms whose expiresAt has passed are deleted with
\* their messages
ExpiredRooms == {r \in RoomCodes : rooms[r] # NoRoom /\ rooms[r].expiresAt < now}

cleanupExpiredRooms ==
  /\ dbReady
  /\ ExpiredRooms # {}
  /\ rooms' = [r \in RoomCodes |-> IF r \in ExpiredRooms THEN NoRoom ELSE rooms[r]]
  /\ msgs' = [m \in MsgIds |->
                IF msgs[m] # NoMsg /\ msgs[m].roomCode \in ExpiredRooms THEN NoMsg
                ELSE msgs[m]]
  /\ hist' = [hist EXCEPT !.vanish = [r \in RoomCodes |->
                IF r \in ExpiredRooms
                THEN [by |-> "cleanup", at |-> now, queryAt |-> now, seen |-> rooms[r],
                      last |-> rooms[r]]
                ELSE hist.vanish[r]]]
  /\ UNCHANGED <<nextId, envVars, sessionVars, redisVars, pc, tconn, loc, out, emitted,
                 worker>>

(* ------------------------------- time --------------------------------- *)
\* keys of the coordination store whose expiry has come are gone
ExpireKeys(t) ==
  [k \in DOMAIN rate |-> IF rate[k].expireAt # NoDate /\ rate[k].expireAt <= t
                         THEN NoRate ELSE rate[k]]

\* the clock advances by d milliseconds
Tick(d) ==
  /\ now' = now + d
  /\ rate' = ExpireKeys(now + d)
  /\ pairing' = [k \in DOMAIN pairing |->
                   IF pairing[k] # NoPairing /\ pairing[k].expireAt <= now + d
                   THEN NoPairing ELSE pairing[k]]
  /\ UNCHANGED <<expHours, dbReady, redisUp, auth, storeVars, sessionVars, presence,
                 userHash, pc, tconn, loc, out, emitted, worker, hist>>

ChatTickMs == TEXT_DEDUP_WINDOW_MS \div 2


(* ---------------- specification: sending and locking ------------------ *)
\* c1 is the connection of u1, c2 the connection of u2
ChatAuth == [c \in Conns |-> IF c = "c1" THEN "u1" ELSE "u2"]

\* createRoom at time 0: the record it stores, owned by its creator, with
\* expiresAt = Date.now() + DEFAULT_ROOM_EXP_HOURS hours
RoomOf(ownerId) ==
  [ownerId |-> ownerId, isLocked |-> FALSE, lockedAt |-> NoDate, isEnded |-> FALSE,
   expiresAt |-> expHours * HourMs]

\* the sessions after joinRoom of c1 as "Nova" and of c2 as "nova", which
\* resolved to "nova#000"
JoinedSessions(a) ==
  [c \in Conns |-> [userId |-> a[c],
                    nickname |-> IF c = "c1" THEN Nick("Nova", NoSfx) ELSE Nick("nova", 0),
                    roomCode |-> "1001"]]

\* the state after u1 created room 1001 and both connections joined it
JoinedInit(a) ==
  /\ auth = a
  /\ now = 0
  /\ dbReady = TRUE
  /\ rooms = [r \in RoomCodes |-> IF r = "1001" THEN RoomOf("u1") ELSE NoRoom]
  /\ msgs = [m \in MsgIds |-> NoMsg]
  /\ nextId = 1
  /\ user = JoinedSessions(a)
  /\ group = [r \in RoomCodes |-> IF r = "1001" THEN Conns ELSE {}]
  /\ redisUp \in BOOLEAN
  /\ presence = [r \in RoomCodes |-> IF r = "1001" /\ redisUp THEN {a[c] : c \in Conns} ELSE {}]
  /\ userHash = [u \in Users |->
                   IF redisUp /\ \E c \in Conns : a[c] = u
                   THEN [nickname |-> user[CHOOSE c \in Conns : a[c] = u].nickname,
                         roomCode |-> "1001"]
                   ELSE NoHash]
  /\ rate = [c \in Conns |-> NoRate]
  /\ pairing = NoPairings
  /\ pc = [t \in Tasks |-> "idle"]
  /\ tconn = [t \in Tasks |-> "c1"]
  /\ loc = [t \in Tasks |-> NoLoc]
  /\ out = [t \in Tasks |-> NoOut]
  /\ emitted = {}
  /\ hist = NoHist

Init == expHours = DEFAULT_ROOM_EXP_HOURS /\ worker = WorkerOff /\ JoinedInit(ChatAuth)

SendStep(t) ==
  \/ SendRoomRead(t) \/ SendRate(t) \/ SendExpire(t) \/ SendDedup(t)
  \/ SendCreate(t) \/ SendSave(t)

LeaveStep(t) ==
  \/ LeaveRoomRead(t) \/ LeaveLock(t) \/ LeaveSysCreate(t) \/ LeaveSysSave(t)
  \/ LeaveCleanup(t)

ChatTick == now + ChatTickMs <= MaxChatTicks * ChatTickMs /\ Tick(ChatTickMs)

\* u2 sends (also twice at once), the owner u1 leaves
Next ==
  \/ \E t \in Tasks, raw \in RawContents : SendStart(t, "c2", raw)
  \/ \E t \in Tasks : SendStep(t)
  \/ LeaveStart("t1", "c1", "1001")
  \/ LeaveStep("t1")
  \/ ChatTick

Spec == Init /\ [][Next]_vars

(* ------------- specification: two connections of the owner ------------ *)
\* both connections authenticate as the owner u1
OwnerAuth == [c \in Conns |-> "u1"]

InitLock ==
  expHours = DEFAULT_ROOM_EXP_HOURS /\ worker = WorkerOff /\ JoinedInit(OwnerAuth)

\* each connection of the owner emits leave_room; the clock may advance
NextLock ==
  \/ LeaveStart("t1", "c1", "1001")
  \/ LeaveStart("t2", "c2", "1001")
  \/ \E t \in Tasks : LeaveStep(t)
  \/ ChatTick

SpecLock == InitLock /\ [][NextLock]_vars

(* ------------- specification: the worker in steady operation ---------- *)
ExpHoursChoices == {DEFAULT_ROOM_EXP_HOURS, 3 * DEFAULT_ROOM_EXP_HOURS}
VanishTickMs == AUTO_VANISH_INTERVAL_MS \div 2
VanishHorizon == GraceMs + (MaxLockTicks + 3) * VanishTickMs

\* the room is created at time 0 under either configured lifetime, both users
\* have joined, the worker runs and its timer is due within the first interval
InitVanish ==
  /\ expHours \in ExpHoursChoices
  /\ \E first \in {VanishTickMs, 2 * VanishTickMs} :
       worker = [WorkerOff EXCEPT !.pc = "on", !.nextSweep = first]
  /\ JoinedInit(ChatAuth)

\* the clock advances half an interval; a due timer fires first, and handlers
\* and sweeps take less than that to complete
VanishTick ==
  /\ now + VanishTickMs <= VanishHorizon
  /\ now < worker.nextSweep
  /\ worker.sweep.pc = "idle"
  /\ \A t \in Tasks : pc[t] = "idle"
  /\ Tick(VanishTickMs)

NextVanish ==
  \/ now <= MaxLockTicks * VanishTickMs /\ LeaveStart("t1", "c1", "1001")
  \/ LeaveStep("t1")
  \/ SweepTimer
  \/ PassStep("sweep")
  \/ endRoom("1001")
  \/ cleanupExpiredRooms
  \/ VanishTick

SpecVanish == InitVanish /\ [][NextVanish]_vars

(* ----------------- specification: the process restarts ---------------- *)
RestartAt == GraceMs + 2 * AUTO_VANISH_INTERVAL_MS
\* never locked, locked more than / exactly / less than 24 hours before the restart
LockTimes == {NoDate, AUTO_VANISH_INTERVAL_MS, 2 * AUTO_VANISH_INTERVAL_MS,
              3 * AUTO_VANISH_INTERVAL_MS}

PersistedRoom(lockedAt, isEnded) ==
  [ownerId |-> "u1", isLocked |-> lockedAt # NoDate, lockedAt |-> lockedAt,
   isEnded |-> isEnded, expiresAt |-> expHours * HourMs]

PersistedRooms == {NoRoom} \cup {PersistedRoom(l, e) : l \in LockTimes, e \in BOOLEAN}

\* the store as an earlier run left it; nothing is connected yet
InitRecover ==
  /\ now = RestartAt
  /\ expHours \in ExpHoursChoices
  /\ dbReady = FALSE
  /\ auth = ChatAuth
  /\ rooms \in [RoomCodes -> PersistedRooms]
  /\ msgs = [m \in MsgIds |->
               IF m = 1 /\ rooms["1001"] # NoRoom /\ rooms["1001"].isLocked
               THEN NewMessage("1001", SystemUser, Nick("System", NoSfx), LockNotice, "text",
                               FALSE, rooms["1001"].lockedAt, rooms["1001"].expiresAt)
               ELSE NoMsg]
  /\ nextId = 2
  /\ user = [c \in Conns |-> [userId |-> auth[c], nickname |-> Anonymous, roomCode |-> NoCode]]
  /\ group = [r \in RoomCodes |-> {}]
  /\ redisUp \in BOOLEAN
  /\ presence = [r \in RoomCodes |-> IF redisUp /\ r = "1001" THEN {"u2"} ELSE {}]
  /\ userHash = [u \in Users |-> IF redisUp /\ u = "u2"
                                 THEN [nickname |-> Nick("nova", NoSfx), roomCode |-> "1001"]
                                 ELSE NoHash]
  /\ rate = [c \in Conns |-> NoRate]
  /\ pairing = NoPairings
  /\ pc = [t \in Tasks |-> "idle"]
  /\ tconn = [t \in Tasks |-> "c1"]
  /\ loc = [t \in Tasks |-> NoLoc]
  /\ out = [t \in Tasks |-> NoOut]
  /\ emitted = {}
  /\ worker = WorkerOff
  /\ hist = NoHist

\* startServer: the store connection and the worker start in either order
NextRecover ==
  \/ DbConnected
  \/ startAutoVanishWorker
  \/ PassStep("recover")
  \/ PassStep("sweep")
  \/ \E r \in RoomCodes : endRoom(r)
  \/ cleanupExpiredRooms

SpecRecover == InitRecover /\ [][NextRecover]_vars

(* ---------------- specification: two users join a room ---------------- *)
JoinStep(t) ==
  \/ JoinRoomRead(t) \/ JoinNickSockets(t) \/ JoinNickRedis(t) \/ JoinNickMongo(t)
  \/ JoinRedis(t) \/ JoinMsgs(t)

\* nobody has joined yet
NoSessions(a) == [c \in Conns |-> [userId |-> a[c], nickname |-> Anonymous, roomCode |-> NoCode]]

\* u1 has created room 1001; both connections are open, neither has joined
InitJoin ==
  /\ now = 0
  /\ expHours = DEFAULT_ROOM_EXP_HOURS
  /\ dbReady = TRUE
  /\ auth = ChatAuth
  /\ rooms = [r \in RoomCodes |-> IF r = "1001" THEN RoomOf("u1") ELSE NoRoom]
  /\ msgs = [m \in MsgIds |-> NoMsg]
  /\ nextId = 1
  /\ user = NoSessions(auth)
  /\ group = [r \in RoomCodes |-> {}]
  /\ redisUp \in BOOLEAN
  /\ presence = [r \in RoomCodes |-> {}]
  /\ userHash = [u \in Users |-> NoHash]
  /\ rate = [c \in Conns |-> NoRate]
  /\ pairing = NoPairings
  /\ pc = [t \in Tasks |-> "idle"]
  /\ tconn = [t \in Tasks |-> "c1"]
  /\ loc = [t \in Tasks |-> NoLoc]
  /\ out = [t \in Tasks |-> NoOut]
  /\ emitted = {}
  /\ worker = WorkerOff
  /\ hist = NoHist

\* each connection emits joinRoom once, with a nickname of its choice
NextJoin ==
  \/ \E n \in ProposedNames : hist.proposed["c1"] = "" /\ JoinStart("t1", "c1", "1001", n)
  \/ \E n \in ProposedNames : hist.proposed["c2"] = "" /\ JoinStart("t2", "c2", "1001", n)
  \/ \E t \in Tasks : JoinStep(t)

SpecJoin == InitJoin /\ [][NextJoin]_vars

(* ------------ specification: one nickname resolution ------------------ *)
\* names another user can hold: as proposed, or with a suffix from an earlier
\* resolution
HeldNames ==
  {Nick(b, NoSfx) : b \in ProposedNames} \cup {Nick("nova", x) : x \in 0 .. (NumSuffix - 1)}
MaybeHeld == HeldNames \cup {Nick("", NoSfx)}
NickTimes == {SUFFIX_SPACE + k : k \in 0 .. NumSuffix}

\* any contents of the three sources for the other user u1: its live session,
\* its presence hash, the nickname on its message in the room's history
InitNick ==
  /\ now \in NickTimes
  /\ expHours = DEFAULT_ROOM_EXP_HOURS
  /\ dbReady = TRUE
  /\ auth = ChatAuth
  /\ rooms = [r \in RoomCodes |-> IF r = "1001" THEN RoomOf("u1") ELSE NoRoom]
  /\ \E live \in MaybeHeld :
       /\ user = [c \in Conns |->
                    IF c = "c1" /\ live.base # ""
                    THEN [userId |-> "u1", nickname |-> live, roomCode |-> "1001"]
                    ELSE [userId |-> auth[c], nickname |-> Anonymous, roomCode |-> NoCode]]
       /\ group = [r \in RoomCodes |-> IF r = "1001" /\ live.base # "" THEN {"c1"} ELSE {}]
  /\ redisUp \in BOOLEAN
  /\ \E stored \in MaybeHeld :
       /\ presence = [r \in RoomCodes |->
                        IF r = "1001" /\ redisUp /\ stored.base # "" THEN {"u1"} ELSE {}]
       /\ userHash = [u \in Users |->
                        IF u = "u1" /\ redisUp /\ stored.base # ""
                        THEN [nickname |-> stored, roomCode |-> "1001"] ELSE NoHash]
  /\ \E past \in MaybeHeld :
       msgs = [m \in MsgIds |->
                 IF m = 1 /\ past.base # ""
                 THEN NewMessage("1001", "u1", past, <<"h">>, "text", FALSE, 0,
                                 rooms["1001"].expiresAt)
                 ELSE NoMsg]
  /\ nextId = 2
  /\ rate = [c \in Conns |-> NoRate]
  /\ pairing = NoPairings
  /\ pc = [t \in Tasks |-> "idle"]
  /\ tconn = [t \in Tasks |-> "c1"]
  /\ loc = [t \in Tasks |-> NoLoc]
  /\ out = [t \in Tasks |-> NoOut]
  /\ emitted = {}
  /\ worker = WorkerOff
  /\ hist = NoHist

\* u2 joins with a proposed nickname; nothing else happens meanwhile
NextNick ==
  \/ \E n \in ProposedNames : hist.proposed["c2"] = "" /\ JoinStart("t2", "c2", "1001", n)
  \/ JoinStep("t2")

SpecNick == InitNick /\ [][NextNick]_vars

(* -------------- specification: deleting and pinning messages ---------- *)
\* room 1001 of u1 with both users in it, room 1002 owned by u2; message 1 is
\* u1's, message 2 is u2's and may be a file message or pinned
InitModerate ==
  /\ expHours = DEFAULT_ROOM_EXP_HOURS
  /\ worker = WorkerOff
  /\ auth = ChatAuth
  /\ now = 0
  /\ dbReady = TRUE
  /\ rooms = [r \in RoomCodes |-> IF r = "1001" THEN RoomOf("u1") ELSE RoomOf("u2")]
  /\ \E isFile \in BOOLEAN, pinned \in BOOLEAN :
       msgs = [m \in MsgIds |->
                 IF m = 1 THEN NewMessage("1001", "u1", Nick("Nova", NoSfx), <<"h">>, "text",
                                          FALSE, 0, rooms["1001"].expiresAt)
                 ELSE IF m = 2
                 THEN [NewMessage("1001", "u2", Nick("nova", 0), <<"h">>,
                                  IF isFile THEN "file" ELSE "text", isFile, 0,
                                  rooms["1001"].expiresAt) EXCEPT !.isPinned = pinned]
                 ELSE NoMsg]
  /\ nextId = 3
  /\ user = JoinedSessions(auth)
  /\ group = [r \in RoomCodes |-> IF r = "1001" THEN Conns ELSE {}]
  /\ redisUp = FALSE
  /\ presence = [r \in RoomCodes |-> {}]
  /\ userHash = [u \in Users |-> NoHash]
  /\ rate = [c \in Conns |-> NoRate]
  /\ pairing = NoPairings
  /\ pc = [t \in Tasks |-> "idle"]
  /\ tconn = [t \in Tasks |-> "c1"]
  /\ loc = [t \in Tasks |-> NoLoc]
  /\ out = [t \in Tasks |-> NoOut]
  /\ emitted = {}
  /\ hist = NoHist

DeleteStep(t) == DeleteMsgRead(t) \/ DeleteRoomRead(t) \/ DeleteApply(t) \/ DeleteFetch(t)

NextDelete ==
  \/ \E t \in Tasks, c \in Conns, m \in {1, 2}, roomId \in RoomCodes \cup {NoCode} :
       DeleteStart(t, c, m, roomId)
  \/ \E t \in Tasks : DeleteStep(t)

SpecDelete == InitModerate /\ [][NextDelete]_vars

PinStep(t) == PinUnpinOthers(t) \/ PinFind(t) \/ PinSave(t)

NextPin ==
  \/ \E t \in Tasks, c \in Conns, m \in {1, 2} : PinStart(t, c, m)
  \/ \E t \in Tasks : PinStep(t)

SpecPin == InitModerate /\ [][NextPin]_vars

(* ------------------------ administrator vanish ------------------------ *)
VanishNotice == <<"This room has been vanished by an administrator.">>

\* vanishRoom (POST /admin/rooms/:roomCode/vanish) up to its room lookup
vanishRoom(t, code) ==
  /\ pc[t] = "idle"
  /\ dbReady
  /\ Goto(t, "vanish_ctl", [code |-> code])
  /\ UNCHANGED <<storeVars, envVars, sessionVars, redisVars, tconn, emitted, worker, hist>>

\* the controller's findOne returns: 404 without a record, otherwise the
\* previous status is taken and the insights cache invalidated
VanishCtlRead(t) ==
  /\ pc[t] = "vanish_ctl"
  /\ LET room == findRoom(loc[t].code) IN
       IF room = NoRoom THEN Finish(t, "not_found", 0)
       ELSE Goto(t, "vanish_cache",
                 [code |-> loc[t].code,
                  previousStatus |-> IF room.isLocked THEN "locked" ELSE "active"])
  /\ UNCHANGED <<storeVars, envVars, sessionVars, redisVars, tconn, emitted, worker, hist>>

\* invalidateAdminCache returns and adminVanishRoom issues its own findOne
VanishCacheInvalidated(t) ==
  /\ pc[t] = "vanish_cache"
  /\ Goto(t, "vanish_room", loc[t])
  /\ UNCHANGED <<storeVars, envVars, sessionVars, redisVars, tconn, emitted, worker, hist>>

\* adminVanishRoom step 1: without a record it throws (the controller answers
\* 500), otherwise createMessage is called for the system message
AdminVanishRoomRead(t) ==
  /\ pc[t] = "vanish_room"
  /\ IF findRoom(loc[t].code) = NoRoom THEN Finish(t, "vanish_failed", 0)
     ELSE Goto(t, "vanish_sys_create", loc[t])
  /\ UNCHANGED <<storeVars, envVars, sessionVars, redisVars, tconn, emitted, worker, hist>>

\* createMessage of the system message: the room is read for its expiresAt
AdminVanishSysCreate(t) ==
  /\ pc[t] = "vanish_sys_create"
  /\ LET room == findRoom(loc[t].code)
         expiresAt == IF room = NoRoom THEN NoDate ELSE room.expiresAt
     IN  Goto(t, "vanish_sys_save",
              [code |-> loc[t].code, previousStatus |-> loc[t].previousStatus,
               doc |-> NewMessage(loc[t].code, SystemUser, Nick("System", NoSfx),
                                  VanishNotice, "text", FALSE, now, expiresAt)])
  /\ UNCHANGED <<storeVars, envVars, sessionVars, redisVars, tconn, emitted, worker, hist>>

\* step 2: the system message is saved and broadcast, then the 500 ms delay
AdminVanishSysSave(t) ==
  /\ pc[t] = "vanish_sys_save"
  /\ nextId <= MaxMsgs
  /\ msgs' = [msgs EXCEPT ![nextId] = loc[t].doc]
  /\ nextId' = nextId + 1
  /\ emitted' = emitted \cup Broadcast("newMessage", loc[t].code, nextId)
  /\ Goto(t, "vanish_delay",
          [code |-> loc[t].code, previousStatus |-> loc[t].previousStatus])
  /\ UNCHANGED <<rooms, envVars, sessionVars, redisVars, tconn, worker, hist>>

\* steps 3 and 4 after the delay: room_vanished goes to the sockets of the
\* group, then every socket fetchSockets returns leaves the group and is
\* disconnected (the in-memory adapter resolves fetchSockets without I/O, so
\* no handler runs between the emit and the leave); deleteRoomFiles is called
AdminVanishNotify(t) ==
  /\ pc[t] = "vanish_delay"
  /\ LET code == loc[t].code IN
       /\ emitted' = emitted \cup Broadcast("room_vanished", code, 0)
       /\ hist' = [hist EXCEPT !.vanishedTo[code] = @ \cup group[code]]
       /\ group' = [group EXCEPT ![code] = {}]
  /\ Goto(t, "vanish_files", loc[t])
  /\ UNCHANGED <<storeVars, envVars, user, redisVars, tconn, worker>>

\* step 5: deleteRoomFiles returns or throws, both continue with deleteMany
AdminVanishFiles(t) ==
  /\ pc[t] = "vanish_files"
  /\ hist' = Logged("adminVanishRoom", loc[t].code, "files")
  /\ Goto(t, "vanish_msgs", loc[t])
  /\ UNCHANGED <<storeVars, envVars, sessionVars, redisVars, tconn, emitted, worker>>

\* step 6: MessageModel.deleteMany({roomCode})
AdminVanishMessages(t) ==
  /\ pc[t] = "vanish_msgs"
  /\ msgs' = [m \in MsgIds |-> IF m \in RoomMsgs(loc[t].code) THEN NoMsg ELSE msgs[m]]
  /\ hist' = Logged("adminVanishRoom", loc[t].code, "messages")
  /\ Goto(t, "vanish_record", loc[t])
  /\ UNCHANGED <<rooms, nextId, envVars, sessionVars, redisVars, tconn, emitted, worker>>

\* step 7: RoomModel.deleteOne({code})
AdminVanishRecord(t) ==
  /\ pc[t] = "vanish_record"
  /\ rooms' = [rooms EXCEPT ![loc[t].code] = NoRoom]
  /\ hist' = Logged("adminVanishRoom", loc[t].code, "room")
  /\ Goto(t, IF redisUp THEN "vanish_redis" ELSE "vanish_audit", loc[t])
  /\ UNCHANGED <<msgs, nextId, envVars, sessionVars, redisVars, tconn, emitted, worker>>

\* step 8: the presence set and every user hash naming the room are removed
AdminVanishRedis(t) ==
  /\ pc[t] = "vanish_redis"
  /\ presence' = [presence EXCEPT ![loc[t].code] = {}]
  /\ userHash' = [u \in Users |->
                    IF userHash[u] # NoHash /\ userHash[u].roomCode = loc[t].code
                    THEN NoHash ELSE userHash[u]]
  /\ hist' = Logged("adminVanishRoom", loc[t].code, "redis")
  /\ Goto(t, "vanish_audit", loc[t])
  /\ UNCHANGED <<storeVars, envVars, sessionVars, rate, pairing, tconn, emitted, worker>>

\* steps 9 and 10: the audit record and the insight update (failures are
\* logged), adminVanishRoom returns and the controller answers success
AdminVanishAudit(t) ==
  /\ pc[t] = "vanish_audit"
  /\ hist' = Logged("adminVanishRoom", loc[t].code, "audit")
  /\ Finish(t, "vanished", 0)
  /\ UNCHANGED <<storeVars, envVars, sessionVars, redisVars, tconn, emitted, worker>>

adminVanishRoom(t) ==
  \/ AdminVanishRoomRead(t) \/ AdminVanishSysCreate(t) \/ AdminVanishSysSave(t)
  \/ AdminVanishNotify(t) \/ AdminVanishFiles(t) \/ AdminVanishMessages(t)
  \/ AdminVanishRecord(t) \/ AdminVanishRedis(t) \/ AdminVanishAudit(t)

(* ------- specification: an administrator vanishes a room in use ------- *)
\* room 1001 of u1, active or locked at time 0, with both connections in it
InitAdminVanish ==
  /\ expHours = DEFAULT_ROOM_EXP_HOURS
  /\ worker = WorkerOff
  /\ auth = ChatAuth
  /\ now = 0
  /\ dbReady = TRUE
  /\ \E locked \in BOOLEAN :
       rooms = [r \in RoomCodes |->
                  IF r = "1001"
                  THEN [RoomOf("u1") EXCEPT !.isLocked = locked,
                                            !.lockedAt = IF locked THEN 0 ELSE NoDate]
                  ELSE NoRoom]
  /\ msgs = [m \in MsgIds |-> NoMsg]
  /\ nextId = 1
  /\ user = JoinedSessions(auth)
  /\ group = [r \in RoomCodes |-> IF r = "1001" THEN Conns ELSE {}]
  /\ redisUp \in BOOLEAN
  /\ presence = [r \in RoomCodes |-> IF r = "1001" /\ redisUp THEN Users ELSE {}]
  /\ userHash = [u \in Users |->
                   IF redisUp
                   THEN [nickname |-> user[CHOOSE c \in Conns : auth[c] = u].nickname,
                         roomCode |-> "1001"]
                   ELSE NoHash]
  /\ rate = [c \in Conns |-> NoRate]
  /\ pairing = NoPairings
  /\ pc = [t \in Tasks |-> "idle"]
  /\ tconn = [t \in Tasks |-> "c1"]
  /\ loc = [t \in Tasks |-> NoLoc]
  /\ out = [t \in Tasks |-> NoOut]
  /\ emitted = {}
  /\ hist = NoHist

\* the administrator's request runs as t1 while u2 sends as t2
NextAdminVanish ==
  \/ vanishRoom("t1", "1001")
  \/ VanishCtlRead("t1")
  \/ VanishCacheInvalidated("t1")
  \/ adminVanishRoom("t1")
  \/ \E raw \in RawContents : SendStart("t2", "c2", raw)
  \/ SendStep("t2")

SpecAdminVanish == InitAdminVanish /\ [][NextAdminVanish]_vars

(* ---------------- specification: the rate limiters ------------------- *)
\* the sends a connection made before the behaviour starts
PriorSends == SEND_MAX_REQUESTS - 1
PriorRequests == CREATE_ROOM_MAX_REQUESTS - 1
RateTickMs == SEND_WINDOW_MS \div 2

\* both connections are u1's and have joined room 1001. With the store up, c1
\* has sent PriorSends messages since time 0 (and deleted them again) and the
\* caller ip1 has made PriorRequests requests; c2 and ip2 have no counter yet.
InitRate ==
  /\ expHours = DEFAULT_ROOM_EXP_HOURS
  /\ worker = WorkerOff
  /\ auth = OwnerAuth
  /\ now = 0
  /\ dbReady = TRUE
  /\ rooms = [r \in RoomCodes |-> IF r = "1001" THEN RoomOf("u1") ELSE NoRoom]
  /\ msgs = [m \in MsgIds |-> NoMsg]
  /\ nextId = 1
  /\ user = JoinedSessions(auth)
  /\ group = [r \in RoomCodes |-> IF r = "1001" THEN Conns ELSE {}]
  /\ redisUp \in BOOLEAN
  /\ presence = [r \in RoomCodes |-> IF r = "1001" /\ redisUp THEN {"u1"} ELSE {}]
  /\ userHash = [u \in Users |->
                   IF redisUp /\ u = "u1"
                   THEN [nickname |-> Nick("nova", 0), roomCode |-> "1001"]
                   ELSE NoHash]
  /\ rate = [k \in Conns \cup HttpKeys |->
               IF ~redisUp \/ k \in {"c2", "ip2"} THEN NoRate
               ELSE IF k = "c1" THEN [count |-> PriorSends, expireAt |-> SEND_WINDOW_MS]
               ELSE [count |-> PriorRequests, expireAt |-> CREATE_ROOM_WINDOW_MS]]
  /\ pairing = NoPairings
  /\ pc = [t \in Tasks |-> "idle"]
  /\ tconn = [t \in Tasks |-> "c1"]
  /\ loc = [t \in Tasks |-> NoLoc]
  /\ out = [t \in Tasks |-> NoOut]
  /\ emitted = {}
  /\ hist = [NoHist EXCEPT !.admitted["c1"] = IF redisUp THEN PriorSends ELSE 0]

RateTick == now + RateTickMs <= MaxRateTicks * RateTickMs /\ Tick(RateTickMs)

\* u1 sends on either connection, the store may fail under either counter
\* operation, the clock advances
NextRate ==
  \/ \E t \in Tasks, c \in Conns : SendStart(t, c, <<"h">>)
  \/ \E t \in Tasks : SendStep(t)
  \/ \E t \in Tasks : SendRateThrows(t)
  \/ \E t \in Tasks : SendExpireThrows(t)
  \/ RateTick

\* t1 serves u1's sends, t2 the HTTP callers; the store may fail under any
\* counter operation
NextLimiter ==
  \/ \E c \in Conns : SendStart("t1", c, <<"h">>)
  \/ SendStep("t1")
  \/ SendRateThrows("t1")
  \/ SendExpireThrows("t1")
  \/ \E k \in HttpKeys : rateLimiter("t2", k)
  \/ LimiterIncr("t2")
  \/ LimiterExpire("t2")
  \/ LimiterThrows("t2")

SpecLimiter == InitRate /\ [][NextLimiter]_vars

SpecRate == InitRate /\ [][NextRate]_vars

(* ------------- specification: joining a room that was ended ---------- *)
\* the owner ends room 1001 (endRoom event or HTTP end) while c1 and c2 join
NextEnd ==
  \/ endRoom("1001")
  \/ \E n \in ProposedNames : hist.proposed["c1"] = "" /\ JoinStart("t1", "c1", "1001", n)
  \/ \E n \in ProposedNames : hist.proposed["c2"] = "" /\ JoinStart("t2", "c2", "1001", n)
  \/ \E t \in Tasks : JoinStep(t)

SpecEnd == InitJoin /\ [][NextEnd]_vars

(* -------- specification: sending without being in the group ---------- *)
\* room 1001 of u1 with c1 in it; c2 is connected and has not joined
InitMember ==
  /\ expHours = DEFAULT_ROOM_EXP_HOURS
  /\ worker = WorkerOff
  /\ auth = ChatAuth
  /\ now = 0
  /\ dbReady = TRUE
  /\ rooms = [r \in RoomCodes |-> IF r = "1001" THEN RoomOf("u1") ELSE NoRoom]
  /\ msgs = [m \in MsgIds |-> NoMsg]
  /\ nextId = 1
  /\ user = [c \in Conns |-> IF c = "c1" THEN JoinedSessions(auth)[c]
                             ELSE NoSessions(auth)[c]]
  /\ group = [r \in RoomCodes |-> IF r = "1001" THEN {"c1"} ELSE {}]
  /\ redisUp \in BOOLEAN
  /\ presence = [r \in RoomCodes |-> IF r = "1001" /\ redisUp THEN {"u1"} ELSE {}]
  /\ userHash = [u \in Users |->
                   IF redisUp /\ u = "u1"
                   THEN [nickname |-> user["c1"].nickname, roomCode |-> "1001"]
                   ELSE NoHash]
  /\ rate = [c \in Conns |-> NoRate]
  /\ pairing = NoPairings
  /\ pc = [t \in Tasks |-> "idle"]
  /\ tconn = [t \in Tasks |-> "c1"]
  /\ loc = [t \in Tasks |-> NoLoc]
  /\ out = [t \in Tasks |-> NoOut]
  /\ emitted = {}
  /\ hist = NoHist

\* t1 serves c2's joinRoom, either connection's leave_room and the
\* administrator's vanish, t2 the sends of both connections
NextMember ==
  \/ hist.proposed["c2"] = "" /\ JoinStart("t1", "c2", "1001", "Nova")
  \/ JoinStep("t1")
  \/ \E c \in Conns : LeaveStart("t1", c, "1001")
  \/ LeaveStep("t1")
  \/ vanishRoom("t1", "1001")
  \/ VanishCtlRead("t1")
  \/ VanishCacheInvalidated("t1")
  \/ adminVanishRoom("t1")
  \/ \E c \in Conns : SendStart("t2", c, <<"h">>)
  \/ SendStep("t2")

SpecMember == InitMember /\ [][NextMember]_vars

(* ------------------------------ pairing ------------------------------- *)
\* validatePairingCode up to redis.get being issued; without a ready store
\* it throws
validatePairingCode(t, pairingCode) ==
  /\ pc[t] = "idle"
  /\ hist.validations < MaxValidations
  /\ hist' = [hist EXCEPT !.validations = @ + 1]
  /\ IF ~redisUp THEN Finish(t, "pairing_unavailable", 0)
     ELSE Goto(t, "pair_get", [pairingCode |-> pairingCode])
  /\ UNCHANGED <<storeVars, envVars, sessionVars, redisVars, tconn, emitted, worker>>

\* redis.get returns: null without data, otherwise the room is looked up
PairGet(t) ==
  /\ pc[t] = "pair_get"
  /\ LET data == pairing[loc[t].pairingCode] IN
       IF data = NoPairing THEN Finish(t, "null", 0)
       ELSE Goto(t, "pair_room", [pairingCode |-> loc[t].pairingCode, data |-> data])
  /\ UNCHANGED <<storeVars, envVars, sessionVars, redisVars, tconn, emitted, worker, hist>>

\* getRoomByCode returns: redis.del is issued, for a missing or expired room
\* ahead of returning null, otherwise ahead of returning the pairing data
PairRoomRead(t) ==
  /\ pc[t] = "pair_room"
  /\ LET room == findRoom(loc[t].data.roomCode) IN
       Goto(t, "pair_del",
            [pairingCode |-> loc[t].pairingCode, data |-> loc[t].data,
             valid |-> room # NoRoom /\ ~RoomExpired(room, now)])
  /\ UNCHANGED <<storeVars, envVars, sessionVars, redisVars, tconn, emitted, worker, hist>>

\* redis.del returns: the call returns {roomCode, userId} or null
PairDel(t) ==
  /\ pc[t] = "pair_del"
  /\ pairing' = [pairing EXCEPT ![loc[t].pairingCode] = NoPairing]
  /\ IF loc[t].valid
     THEN /\ hist' = [hist EXCEPT !.paired[loc[t].pairingCode] = @ + 1]
          /\ Finish(t, "paired", 0)
     ELSE /\ hist' = hist
          /\ Finish(t, "null", 0)
  /\ UNCHANGED <<storeVars, envVars, sessionVars, presence, userHash, rate, tconn, emitted,
                 worker>>

(* ---------------- specification: one pairing code --------------------- *)
PairTickMs == (PAIRING_CODE_EXPIRY_SECONDS * 1000) \div 2

\* generatePairingCodeForRoom("1001", "u1") stored the code 123456 at time 0;
\* the room may have been removed since
InitPair ==
  /\ expHours = DEFAULT_ROOM_EXP_HOURS
  /\ worker = WorkerOff
  /\ auth = ChatAuth
  /\ now = 0
  /\ dbReady = TRUE
  /\ \E gone \in BOOLEAN :
       rooms = [r \in RoomCodes |-> IF r = "1001" /\ ~gone THEN RoomOf("u1") ELSE NoRoom]
  /\ msgs = [m \in MsgIds |-> NoMsg]
  /\ nextId = 1
  /\ user = NoSessions(auth)
  /\ group = [r \in RoomCodes |-> {}]
  /\ redisUp \in BOOLEAN
  /\ presence = [r \in RoomCodes |-> {}]
  /\ userHash = [u \in Users |-> NoHash]
  /\ rate = [c \in Conns |-> NoRate]
  /\ pairing = [k \in PairingCodes |->
                  IF redisUp
                  THEN [roomCode |-> "1001", userId |-> "u1",
                        expireAt |-> PAIRING_CODE_EXPIRY_SECONDS * 1000]
                  ELSE NoPairing]
  /\ pc = [t \in Tasks |-> "idle"]
  /\ tconn = [t \in Tasks |-> "c1"]
  /\ loc = [t \in Tasks |-> NoLoc]
  /\ out = [t \in Tasks |-> NoOut]
  /\ emitted = {}
  /\ hist = NoHist

PairTick == now + PairTickMs <= MaxPairTicks * PairTickMs /\ Tick(PairTickMs)

\* devices redeem the code, also at the same time; the clock advances
NextPair ==
  \/ \E t \in Tasks, k \in PairingCodes : validatePairingCode(t, k)
  \/ \E t \in Tasks : PairGet(t)
  \/ \E t \in Tasks : PairRoomRead(t)
  \/ \E t \in Tasks : PairDel(t)
  \/ PairTick

SpecPair == InitPair /\ [][NextPair]_vars

(* ------- specification: joining a missing or an expired room --------- *)
\* the room 1001 was created at time 0; the clock stands at 0 or just past
\* the room's expiresAt, with the record still stored
JoinTimes == {0, DEFAULT_ROOM_EXP_HOURS * HourMs + 1}

\* c1 is in room 1001, c2 has not joined; there is no room 1002
InitJoinFail ==
  /\ expHours = DEFAULT_ROOM_EXP_HOURS
  /\ worker = WorkerOff
  /\ auth = ChatAuth
  /\ now \in JoinTimes
  /\ dbReady = TRUE
  /\ rooms = [r \in RoomCodes |-> IF r = "1001" THEN RoomOf("u1") ELSE NoRoom]
  /\ msgs = [m \in MsgIds |-> NoMsg]
  /\ nextId = 1
  /\ user = [c \in Conns |-> IF c = "c1" THEN JoinedSessions(auth)[c]
                             ELSE NoSessions(auth)[c]]
  /\ group = [r \in RoomCodes |-> IF r = "1001" THEN {"c1"} ELSE {}]
  /\ redisUp \in BOOLEAN
  /\ presence = [r \in RoomCodes |-> IF r = "1001" /\ redisUp THEN {"u1"} ELSE {}]
  /\ userHash = [u \in Users |->
                   IF redisUp /\ u = "u1"
                   THEN [nickname |-> user["c1"].nickname, roomCode |-> "1001"]
                   ELSE NoHash]
  /\ rate = [c \in Conns |-> NoRate]
  /\ pairing = NoPairings
  /\ pc = [t \in Tasks |-> "idle"]
  /\ tconn = [t \in Tasks |-> "c1"]
  /\ loc = [t \in Tasks |-> NoLoc]
  /\ out = [t \in Tasks |-> NoOut]
  /\ emitted = {}
  /\ hist = NoHist

\* each connection emits joinRoom once, for either code, with or without a
\* senderId
NextJoinFail ==
  \/ \E t \in Tasks, c \in Conns, code \in RoomCodes, senderId \in Users \cup {""} :
       hist.proposed[c] = "" /\ JoinStartAs(t, c, code, "Nova", senderId)
  \/ \E t \in Tasks : JoinStep(t)

SpecJoinFail == InitJoinFail /\ [][NextJoinFail]_vars

(* ----------- specification: both delete entry points ----------------- *)
\* deleteMessage and delete_message requests for the room of the session
NextAlias ==
  \/ \E t \in Tasks, c \in Conns, m \in {1, 2} : DeleteStart(t, c, m, NoCode)
  \/ \E t \in Tasks, c \in Conns, m \in {1, 2} : delete_message(t, c, m, NoCode)
  \/ \E t \in Tasks : DeleteStep(t)
  \/ \E t \in Tasks : AliasMsgRead(t)
  \/ \E t \in Tasks : AliasRoomRead(t)

SpecAlias == InitModerate /\ [][NextAlias]_vars

(* ---------------------------- destroy_room ---------------------------- *)
\* destroy_room up to getRoomByCode: the session must name a room, and the
\* room the request names (by default the session's) must be that room
destroy_room(t, c, roomId) ==
  /\ pc[t] = "idle"
  /\ dbReady
  /\ tconn' = [tconn EXCEPT ![t] = c]
  /\ LET targetRoomId == IF roomId # NoCode THEN roomId ELSE user[c].roomCode IN
       IF user[c].roomCode = NoCode THEN Finish(t, "not_in_room", 0)
       ELSE IF user[c].roomCode # targetRoomId
            THEN Finish(t, "not_in_specified_room", 0)
            ELSE Goto(t, "destroy_read", [code |-> targetRoomId])
  /\ UNCHANGED <<storeVars, envVars, sessionVars, redisVars, emitted, worker, hist>>

\* getRoomByCode returns: only the connection whose handshake user is the
\* room's ownerId goes on; without a store connection the handler throws
DestroyRoomRead(t) ==
  /\ pc[t] = "destroy_read"
  /\ LET room == findRoom(loc[t].code) authUserId == auth[tconn[t]] IN
       IF room = NoRoom THEN Finish(t, "room_not_found", 0)
       ELSE IF room.ownerId = "" \/ authUserId = "" \/ room.ownerId # authUserId
            THEN Finish(t, "error_unauthorized", 0)
            ELSE IF ~dbReady THEN Finish(t, "failed_to_destroy", 0)
                 ELSE Goto(t, "destroy_msgs", loc[t])
  /\ UNCHANGED <<storeVars, envVars, sessionVars, redisVars, tconn, emitted, worker, hist>>

\* cleanup step 1: MessageModel.deleteMany({roomCode})
DestroyMessages(t) ==
  /\ pc[t] = "destroy_msgs"
  /\ msgs' = [m \in MsgIds |-> IF m \in RoomMsgs(loc[t].code) THEN NoMsg ELSE msgs[m]]
  /\ hist' = Logged("destroy_room", loc[t].code, "messages")
  /\ Goto(t, "destroy_record", loc[t])
  /\ UNCHANGED <<rooms, nextId, envVars, sessionVars, redisVars, tconn, emitted, worker>>

\* cleanup steps 2 to 4: RoomModel.deleteOne({code}) returns, room_destroyed
\* goes to the group and its sockets are disconnected; without the
\* coordination store the session's room code is cleared and the handler ends
DestroyRecord(t) ==
  /\ pc[t] = "destroy_record"
  /\ LET code == loc[t].code IN
       /\ rooms' = [rooms EXCEPT ![code] = NoRoom]
       /\ hist' = Logged("destroy_room", code, "room")
       /\ emitted' = emitted \cup Broadcast("room_destroyed", code, 0)
       /\ group' = [group EXCEPT ![code] = {}]
  /\ IF redisUp
     THEN /\ Goto(t, "destroy_redis", loc[t])
          /\ user' = user
     ELSE /\ Finish(t, "destroyed", 0)
          /\ user' = [user EXCEPT ![tconn[t]].roomCode = NoCode]
  /\ UNCHANGED <<msgs, nextId, envVars, redisVars, tconn, worker>>

\* step 5: redis.del of the presence set, then the session's room code is
\* cleared
DestroyRedis(t) ==
  /\ pc[t] = "destroy_redis"
  /\ presence' = [presence EXCEPT ![loc[t].code] = {}]
  /\ hist' = Logged("destroy_room", loc[t].code, "redis")
  /\ user' = [user EXCEPT ![tconn[t]].roomCode = NoCode]
  /\ Finish(t, "destroyed", 0)
  /\ UNCHANGED <<storeVars, envVars, group, userHash, rate, pairing, tconn, emitted, worker>>

(* ------------------- cleanupExpiredRooms, step by step ---------------- *)
\* the history with one more step of a deletion path on each room of codes
LoggedAll(path, codes, step) ==
  [hist EXCEPT !.purge = [r \in RoomCodes |->
     IF r \in codes THEN Append(hist.purge[r], [by |-> path, step |-> step])
     ELSE hist.purge[r]]]

\* cleanupExpiredRooms is called: it returns at once without a store
\* connection, otherwise it takes the time and issues the find
CleanupCalled(t) ==
  /\ pc[t] = "idle"
  /\ dbReady
  /\ Goto(t, "cleanup_find", [at |-> now])
  /\ UNCHANGED <<storeVars, envVars, sessionVars, redisVars, tconn, emitted, worker, hist>>

\* RoomModel.find({expiresAt < now}).limit(1000) returns: without a room the
\* sweep ends, otherwise deleteRoomFiles is called for every code found
CleanupFind(t) ==
  /\ pc[t] = "cleanup_find"
  /\ \E roomCodes \in Limited({r \in RoomCodes : rooms[r] # NoRoom
                                                   /\ rooms[r].expiresAt < loc[t].at},
                              CleanupBatch) :
       IF roomCodes = {} THEN Finish(t, "no_expired_rooms", 0)
       ELSE Goto(t, "cleanup_files", [at |-> loc[t].at, roomCodes |-> roomCodes])
  /\ UNCHANGED <<storeVars, envVars, sessionVars, redisVars, tconn, emitted, worker, hist>>

\* every deleteRoomFiles has returned or failed: RoomModel.deleteMany and
\* MessageModel.deleteMany are issued together (Promise.all)
CleanupFiles(t) ==
  /\ pc[t] = "cleanup_files"
  /\ hist' = LoggedAll("cleanupExpiredRooms", loc[t].roomCodes, "files")
  /\ Goto(t, "cleanup_delete",
          [at |-> loc[t].at, roomCodes |-> loc[t].roomCodes,
           roomsDone |-> FALSE, messagesDone |-> FALSE])
  /\ UNCHANGED <<storeVars, envVars, sessionVars, redisVars, tconn, emitted, worker>>

\* where the sweep stands once one of its two deletions is applied: it waits
\* for the other, then cleans the coordination store if there is one
AfterCleanupDelete(t, l) ==
  IF ~(l.roomsDone /\ l.messagesDone) THEN Goto(t, "cleanup_delete", l)
  ELSE IF redisUp THEN Goto(t, "cleanup_redis", l)
       ELSE Finish(t, "cleaned", 0)

\* the store applies RoomModel.deleteMany({expiresAt < now})
CleanupDeleteRooms(t) ==
  /\ pc[t] = "cleanup_delete"
  /\ ~loc[t].roomsDone
  /\ rooms' = [r \in RoomCodes |->
                 IF rooms[r] # NoRoom /\ rooms[r].expiresAt < loc[t].at THEN NoRoom
                 ELSE rooms[r]]
  /\ hist' = LoggedAll("cleanupExpiredRooms", loc[t].roomCodes, "room")
  /\ AfterCleanupDelete(t, [loc[t] EXCEPT !.roomsDone = TRUE])
  /\ UNCHANGED <<msgs, nextId, envVars, sessionVars, redisVars, tconn, emitted, worker>>

\* the store applies MessageModel.deleteMany({roomCode in roomCodes})
CleanupDeleteMessages(t) ==
  /\ pc[t] = "cleanup_delete"
  /\ ~loc[t].messagesDone
  /\ msgs' = [m \in MsgIds |->
                IF msgs[m] # NoMsg /\ msgs[m].roomCode \in loc[t].roomCodes THEN NoMsg
                ELSE msgs[m]]
  /\ hist' = LoggedAll("cleanupExpiredRooms", loc[t].roomCodes, "messages")
  /\ AfterCleanupDelete(t, [loc[t] EXCEPT !.messagesDone = TRUE])
  /\ UNCHANGED <<rooms, nextId, envVars, sessionVars, redisVars, tconn, emitted, worker>>

\* the presence set of every code and every user hash naming one are removed
CleanupRedis(t) ==
  /\ pc[t] = "cleanup_redis"
  /\ presence' = [r \in RoomCodes |-> IF r \in loc[t].roomCodes THEN {} ELSE presence[r]]
  /\ userHash' = [u \in Users |->
                    IF userHash[u] # NoHash /\ userHash[u].roomCode \in loc[t].roomCodes
                    THEN NoHash ELSE userHash[u]]
  /\ hist' = LoggedAll("cleanupExpiredRooms", loc[t].roomCodes, "redis")
  /\ Finish(t, "cleaned", 0)
  /\ UNCHANGED <<storeVars, envVars, sessionVars, rate, pairing, tconn, emitted, worker>>

(* ------------- specification: three ways a room is deleted ------------ *)
\* room 1001 of u2 has expired and holds a message; room 1002 of u1, created
\* when 1001 expired, is in use by both connections and holds a message
InitPurge ==
  /\ expHours = DEFAULT_ROOM_EXP_HOURS
  /\ worker = WorkerOff
  /\ auth = ChatAuth
  /\ now = expHours * HourMs + 1
  /\ dbReady = TRUE
  /\ rooms = [r \in RoomCodes |->
                IF r = "1001" THEN RoomOf("u2")
                ELSE [RoomOf("u1") EXCEPT !.expiresAt = 2 * expHours * HourMs]]
  /\ msgs = [m \in MsgIds |->
               IF m = 1
               THEN NewMessage("1001", "u2", Nick("nova", NoSfx), <<"h">>, "text", FALSE,
                               0, expHours * HourMs)
               ELSE IF m = 2
               THEN NewMessage("1002", "u1", Nick("Nova", NoSfx), <<"h">>, "text", FALSE,
                               expHours * HourMs, 2 * expHours * HourMs)
               ELSE NoMsg]
  /\ nextId = 3
  /\ user = [c \in Conns |-> [JoinedSessions(auth)[c] EXCEPT !.roomCode = "1002"]]
  /\ group = [r \in RoomCodes |-> IF r = "1002" THEN Conns ELSE {}]
  /\ redisUp \in BOOLEAN
  /\ presence = [r \in RoomCodes |-> IF r = "1002" /\ redisUp THEN Users ELSE {}]
  /\ userHash = [u \in Users |->
                   IF redisUp
                   THEN [nickname |-> user[CHOOSE c \in Conns : auth[c] = u].nickname,
                         roomCode |-> "1002"]
                   ELSE NoHash]
  /\ rate = [c \in Conns |-> NoRate]
  /\ pairing = NoPairings
  /\ pc = [t \in Tasks |-> "idle"]
  /\ tconn = [t \in Tasks |-> "c1"]
  /\ loc = [t \in Tasks |-> NoLoc]
  /\ out = [t \in Tasks |-> NoOut]
  /\ emitted = {}
  /\ hist = NoHist

\* t1 serves the owner's and the administrator's requests on room 1002, t2
\* runs the expiry sweep
NextPurge ==
  \/ \E c \in Conns, roomId \in {NoCode, "1002"} : destroy_room("t1", c, roomId)
  \/ DestroyRoomRead("t1")
  \/ DestroyMessages("t1")
  \/ DestroyRecord("t1")
  \/ DestroyRedis("t1")
  \/ vanishRoom("t1", "1002")
  \/ VanishCtlRead("t1")
  \/ VanishCacheInvalidated("t1")
  \/ adminVanishRoom("t1")
  \/ CleanupCalled("t2")
  \/ CleanupFind("t2")
  \/ CleanupFiles("t2")
  \/ CleanupDeleteRooms("t2")
  \/ CleanupDeleteMessages("t2")
  \/ CleanupRedis("t2")

SpecPurge == InitPurge /\ [][NextPurge]_vars

(* --------------------------- endRoom event ---------------------------- *)
\* the endRoom event up to the service's findOneAndUpdate: the session must
\* name a room; the service throws without a store connection
endRoomEvent(t, c, userId) ==
  /\ pc[t] = "idle"
  /\ tconn' = [tconn EXCEPT ![t] = c]
  /\ IF user[c].roomCode = NoCode THEN Finish(t, "not_in_room", 0)
     ELSE IF ~dbReady THEN Finish(t, "failed_to_end_room", 0)
          ELSE Goto(t, "end_update", [code |-> user[c].roomCode, userId |-> userId])
  /\ UNCHANGED <<storeVars, envVars, sessionVars, redisVars, emitted, worker, hist>>

\* findOneAndUpdate({code}, {isEnded: true, endedAt, endedBy: userId}) is
\* applied: without a record the service throws, otherwise roomEnded goes to
\* the room the session names
EndRoomApply(t) ==
  /\ pc[t] = "end_update"
  /\ LET code == loc[t].code IN
       IF RoomExists(code)
       THEN /\ rooms' = [rooms EXCEPT ![code].isEnded = TRUE]
            /\ hist' = [hist EXCEPT !.ended[code] = TRUE]
            /\ emitted' = emitted \cup Broadcast("roomEnded", user[tconn[t]].roomCode, 0)
            /\ Finish(t, "room_ended", 0)
       ELSE /\ UNCHANGED <<rooms, hist, emitted>>
            /\ Finish(t, "failed_to_end_room", 0)
  /\ UNCHANGED <<msgs, nextId, envVars, sessionVars, redisVars, tconn, worker>>

(* -------------------------- admin_close_room -------------------------- *)
\* a room token is a JWT over {roomCode}: the payload and whether the
\* signature is this deployment's; the empty string is no token
NoToken == [roomCode |-> NoCode, signed |-> FALSE]
generateToken(roomCode) == [roomCode |-> roomCode, signed |-> TRUE]
ForgedToken == [roomCode |-> "1001", signed |-> FALSE]
RoomTokens == {generateToken(r) : r \in RoomCodes} \cup {ForgedToken, NoToken}

\* verifyToken: jwt.verify returns the payload of a token signed with
\* JWT_SECRET and throws on any other, which gives null
verifyToken(token) ==
  IF token.signed THEN [roomCode |-> token.roomCode] ELSE [absent |-> TRUE]

verifyRoomToken(token, code) ==
  /\ token # NoToken
  /\ code # NoCode
  /\ verifyToken(token) # [absent |-> TRUE]
  /\ verifyToken(token).roomCode = code

\* admin_close_room up to getRoomByCode: the session must name a room and the
\* request carry a token
admin_close_room(t, c, roomToken) ==
  /\ pc[t] = "idle"
  /\ dbReady
  /\ tconn' = [tconn EXCEPT ![t] = c]
  /\ IF user[c].roomCode = NoCode THEN Finish(t, "not_in_room", 0)
     ELSE IF roomToken = NoToken THEN Finish(t, "invalid_room_token", 0)
          ELSE Goto(t, "close_read", [code |-> user[c].roomCode, roomToken |-> roomToken])
  /\ UNCHANGED <<storeVars, envVars, sessionVars, redisVars, emitted, worker, hist>>

\* getRoomByCode returns: the request goes on when its token verifies for the
\* room; without a store connection the handler throws
CloseRoomRead(t) ==
  /\ pc[t] = "close_read"
  /\ IF findRoom(loc[t].code) = NoRoom THEN Finish(t, "room_not_found", 0)
     ELSE IF ~verifyRoomToken(loc[t].roomToken, loc[t].code)
          THEN Finish(t, "unauthorized", 0)
          ELSE IF ~dbReady THEN Finish(t, "failed_to_close", 0)
               ELSE Goto(t, "close_msgs", loc[t])
  /\ UNCHANGED <<storeVars, envVars, sessionVars, redisVars, tconn, emitted, worker, hist>>

\* MessageModel.deleteMany({roomCode}) (the direct deletes; in a replica set
\* the same two deletes run in one transaction)
CloseRoomMessages(t) ==
  /\ pc[t] = "close_msgs"
  /\ msgs' = [m \in MsgIds |-> IF m \in RoomMsgs(loc[t].code) THEN NoMsg ELSE msgs[m]]
  /\ hist' = Logged("admin_close_room", loc[t].code, "messages")
  /\ Goto(t, "close_record", loc[t])
  /\ UNCHANGED <<rooms, nextId, envVars, sessionVars, redisVars, tconn, emitted, worker>>

\* RoomModel.deleteOne({code})
CloseRoomRecord(t) ==
  /\ pc[t] = "close_record"
  /\ rooms' = [rooms EXCEPT ![loc[t].code] = NoRoom]
  /\ hist' = Logged("admin_close_room", loc[t].code, "room")
  /\ Goto(t, "close_notify", loc[t])
  /\ UNCHANGED <<msgs, nextId, envVars, sessionVars, redisVars, tconn, emitted, worker>>

\* the presence set is removed if the coordination store is there (no socket
\* carries data.user, so no user hash is), room_terminated goes to the group,
\* its sockets leave it and the session's room code is cleared
CloseRoomNotify(t) ==
  /\ pc[t] = "close_notify"
  /\ LET code == loc[t].code IN
       /\ presence' = IF redisUp THEN [presence EXCEPT ![code] = {}] ELSE presence
       /\ hist' = IF redisUp THEN Logged("admin_close_room", code, "redis") ELSE hist
       /\ emitted' = emitted \cup Broadcast("room_terminated", code, 0)
       /\ group' = [group EXCEPT ![code] = {}]
       /\ user' = [user EXCEPT ![tconn[t]].roomCode = NoCode]
  /\ Finish(t, "closed", 0)
  /\ UNCHANGED <<storeVars, envVars, userHash, rate, pairing, tconn, worker>>

(* -------- specification: socket events that end or destroy a room ----- *)
\* room 1001 of u1 with one message of each user; c1 is the owner's
\* connection, c2 the connection of u2, with or without a handshake userId
InitOwnerEnd ==
  /\ expHours = DEFAULT_ROOM_EXP_HOURS
  /\ worker = WorkerOff
  /\ auth \in {ChatAuth, [ChatAuth EXCEPT !["c2"] = ""]}
  /\ now = 0
  /\ dbReady = TRUE
  /\ rooms = [r \in RoomCodes |-> IF r = "1001" THEN RoomOf("u1") ELSE NoRoom]
  /\ msgs = [m \in MsgIds |->
               IF m = 1
               THEN NewMessage("1001", "u1", Nick("Nova", NoSfx), <<"h">>, "text", FALSE,
                               0, expHours * HourMs)
               ELSE IF m = 2
               THEN NewMessage("1001", "u2", Nick("nova", 0), <<"h">>, "text", FALSE,
                               0, expHours * HourMs)
               ELSE NoMsg]
  /\ nextId = 3
  /\ user = JoinedSessions(ChatAuth)
  /\ group = [r \in RoomCodes |-> IF r = "1001" THEN Conns ELSE {}]
  /\ redisUp \in BOOLEAN
  /\ presence = [r \in RoomCodes |-> IF r = "1001" /\ redisUp THEN Users ELSE {}]
  /\ userHash = [u \in Users |->
                   IF redisUp
                   THEN [nickname |-> user[CHOOSE c \in Conns : ChatAuth[c] = u].nickname,
                         roomCode |-> "1001"]
                   ELSE NoHash]
  /\ rate = [c \in Conns |-> NoRate]
  /\ pairing = NoPairings
  /\ pc = [t \in Tasks |-> "idle"]
  /\ tconn = [t \in Tasks |-> "c1"]
  /\ loc = [t \in Tasks |-> NoLoc]
  /\ out = [t \in Tasks |-> NoOut]
  /\ emitted = {}
  /\ hist = NoHist

\* t1 serves the events of the owner's connection, t2 those of the other
NextOwnerEnd ==
  \/ \E t \in Tasks :
       LET c == IF t = "t1" THEN "c1" ELSE "c2" IN
         \/ destroy_room(t, c, NoCode)
         \/ \E userId \in Users : endRoomEvent(t, c, userId)
         \/ \E roomToken \in RoomTokens : admin_close_room(t, c, roomToken)
  \/ \E t \in Tasks :
       \/ DestroyRoomRead(t) \/ DestroyMessages(t) \/ DestroyRecord(t) \/ DestroyRedis(t)
       \/ EndRoomApply(t)
       \/ CloseRoomRead(t) \/ CloseRoomMessages(t) \/ CloseRoomRecord(t)
       \/ CloseRoomNotify(t)

SpecOwnerEnd == InitOwnerEnd /\ [][NextOwnerEnd]_vars

(* ------------------------- administrator routes ----------------------- *)
\* env.ADMIN_SECRET of this deployment, and what a request may present
ADMIN_SECRET == "admin-secret"
AdminSecrets == {ADMIN_SECRET, "guess", ""}

\* authenticateAdmin with ADMIN_SECRET configured, no IP whitelist and no
\* session header: the presented secret must be the configured one
authenticateAdmin(adminSecret) == adminSecret # "" /\ adminSecret = ADMIN_SECRET

\* POST /admin/rooms/:roomCode/vanish: router.use(authenticateAdmin) answers
\* 401 or sets req.isAdmin and passes the request on to vanishRoom
postVanish(t, adminSecret, code) ==
  /\ pc[t] = "idle"
  /\ dbReady
  /\ hist' = [hist EXCEPT !.isAdmin[t] = authenticateAdmin(adminSecret)]
  /\ IF authenticateAdmin(adminSecret) THEN Goto(t, "vanish_ctl", [code |-> code])
     ELSE Finish(t, "401", 0)
  /\ UNCHANGED <<storeVars, envVars, sessionVars, redisVars, tconn, emitted, worker>>

(* --------------------------- admin_end_room --------------------------- *)
OwnerVanishNotice == <<"The owner has vanished the room.">>

\* admin_end_room up to getRoomByCode: the session must name a room, and the
\* room the request names (by default the session's) must be that room
admin_end_room(t, c, roomId) ==
  /\ pc[t] = "idle"
  /\ dbReady
  /\ tconn' = [tconn EXCEPT ![t] = c]
  /\ LET targetRoomId == IF roomId # NoCode THEN roomId ELSE user[c].roomCode IN
       IF user[c].roomCode = NoCode THEN Finish(t, "not_in_room", 0)
       ELSE IF user[c].roomCode # targetRoomId
            THEN Finish(t, "not_in_specified_room", 0)
            ELSE Goto(t, "aend_read", [code |-> targetRoomId])
  /\ UNCHANGED <<storeVars, envVars, sessionVars, redisVars, emitted, worker, hist>>

\* getRoomByCode returns: only the connection whose handshake user is the
\* room's ownerId goes on; without a store connection the handler throws
AdminEndRoomRead(t) ==
  /\ pc[t] = "aend_read"
  /\ LET room == findRoom(loc[t].code) authUserId == auth[tconn[t]] IN
       IF room = NoRoom THEN Finish(t, "room_not_found", 0)
       ELSE IF room.ownerId = "" \/ authUserId = "" \/ room.ownerId # authUserId
            THEN Finish(t, "error_unauthorized", 0)
            ELSE IF ~dbReady THEN Finish(t, "failed_to_end_room", 0)
                 ELSE Goto(t, "aend_sys", loc[t])
  /\ UNCHANGED <<storeVars, envVars, sessionVars, redisVars, tconn, emitted, worker, hist>>

\* step 1: createMessage stores the system message with the expiresAt of the
\* room it reads and the message is broadcast; a failure is logged and the
\* handler goes on; deleteRoomFiles is called
AdminEndSysMessage(t) ==
  /\ pc[t] = "aend_sys"
  /\ LET code == loc[t].code
         room == findRoom(code)
         expiresAt == IF room = NoRoom THEN NoDate ELSE room.expiresAt
     IN  IF nextId <= MaxMsgs
         THEN /\ msgs' = [msgs EXCEPT ![nextId] =
                            NewMessage(code, SystemUser, Nick("System", NoSfx),
                                       OwnerVanishNotice, "text", FALSE, now, expiresAt)]
              /\ nextId' = nextId + 1
              /\ emitted' = emitted \cup Broadcast("newMessage", code, nextId)
         ELSE UNCHANGED <<msgs, nextId, emitted>>
  /\ Goto(t, "aend_files", loc[t])
  /\ UNCHANGED <<rooms, envVars, sessionVars, redisVars, tconn, worker, hist>>

\* step 2: deleteRoomFiles returns or throws, both continue with deleteMany
AdminEndFiles(t) ==
  /\ pc[t] = "aend_files"
  /\ hist' = Logged("admin_end_room", loc[t].code, "files")
  /\ Goto(t, "aend_msgs", loc[t])
  /\ UNCHANGED <<storeVars, envVars, sessionVars, redisVars, tconn, emitted, worker>>

\* step 3: MessageModel.deleteMany({roomCode})
AdminEndMessages(t) ==
  /\ pc[t] = "aend_msgs"
  /\ msgs' = [m \in MsgIds |-> IF m \in RoomMsgs(loc[t].code) THEN NoMsg ELSE msgs[m]]
  /\ hist' = Logged("admin_end_room", loc[t].code, "messages")
  /\ Goto(t, "aend_record", loc[t])
  /\ UNCHANGED <<rooms, nextId, envVars, sessionVars, redisVars, tconn, emitted, worker>>

\* steps 4 and 5: RoomModel.deleteOne({code}) returns, room_vanished goes to
\* the group, its sockets leave it and are disconnected; without the
\* coordination store the session's room code is cleared and the handler ends
AdminEndRecord(t) ==
  /\ pc[t] = "aend_record"
  /\ LET code == loc[t].code IN
       /\ rooms' = [rooms EXCEPT ![code] = NoRoom]
       /\ emitted' = emitted \cup Broadcast("room_vanished", code, 0)
       /\ hist' = [Logged("admin_end_room", code, "room")
                     EXCEPT !.vanishedTo[code] = @ \cup group[code]]
       /\ group' = [group EXCEPT ![code] = {}]
  /\ IF redisUp
     THEN /\ Goto(t, "aend_redis", loc[t])
          /\ user' = user
     ELSE /\ Finish(t, "vanished", 0)
          /\ user' = [user EXCEPT ![tconn[t]].roomCode = NoCode]
  /\ UNCHANGED <<msgs, nextId, envVars, redisVars, tconn, worker>>

\* the presence set is removed (the group is empty by now, so no user hash
\* is), the insight update is sent and the session's room code is cleared
AdminEndRedis(t) ==
  /\ pc[t] = "aend_redis"
  /\ presence' = [presence EXCEPT ![loc[t].code] = {}]
  /\ hist' = Logged("admin_end_room", loc[t].code, "redis")
  /\ user' = [user EXCEPT ![tconn[t]].roomCode = NoCode]
  /\ Finish(t, "vanished", 0)
  /\ UNCHANGED <<storeVars, envVars, group, userHash, rate, pairing, tconn, emitted, worker>>

(* ---------- specification: who can make a room vanish ----------------- *)
\* t1 serves requests to the administrator route, with the configured secret
\* or another; t2 serves the admin_end_room events of the two connections
NextVanishBy ==
  \/ \E adminSecret \in AdminSecrets : postVanish("t1", adminSecret, "1001")
  \/ VanishCtlRead("t1")
  \/ VanishCacheInvalidated("t1")
  \/ adminVanishRoom("t1")
  \/ \E c \in Conns : admin_end_room("t2", c, NoCode)
  \/ AdminEndRoomRead("t2")
  \/ AdminEndSysMessage("t2")
  \/ AdminEndFiles("t2")
  \/ AdminEndMessages("t2")
  \/ AdminEndRecord("t2")
  \/ AdminEndRedis("t2")

SpecVanishBy == InitAdminVanish /\ [][NextVanishBy]_vars

(* ------ specification: a restart while the store fails now and then ---- *)
\* as the restart, with deleteMany or deleteOne of a pass failing at times
NextStoreFails ==
  \/ NextRecover
  \/ \E p \in Passes, r \in RoomCodes : PassDeleteFails(p, r)

SpecStoreFails == InitRecover /\ [][NextStoreFails]_vars

(* ------------------ legacy leaveRoom and disconnect ------------------- *)
\* the legacy leaveRoom event: handleUserLeaveRoom for the session's room
leaveRoom(t, c) ==
  /\ pc[t] = "idle"
  /\ tconn' = [tconn EXCEPT ![t] = c]
  /\ IF user[c].roomCode = NoCode THEN Finish(t, "not_in_room", 0)
     ELSE Goto(t, "leave_cleanup", [roomId |-> user[c].roomCode])
  /\ UNCHANGED <<storeVars, envVars, sessionVars, redisVars, emitted, worker, hist>>

\* the disconnect event: the socket is out of its groups when the handler
\* runs; handleUserLeaveRoom for the session's room, without the roomLeft
\* confirmation
disconnect(t, c) ==
  /\ pc[t] = "idle"
  /\ tconn' = [tconn EXCEPT ![t] = c]
  /\ group' = [r \in RoomCodes |-> group[r] \ {c}]
  /\ IF user[c].roomCode = NoCode THEN Finish(t, "disconnected", 0)
     ELSE Goto(t, "leave_cleanup", [roomId |-> user[c].roomCode,
                                    shouldEmitRoomLeft |-> FALSE])
  /\ UNCHANGED <<storeVars, envVars, user, redisVars, emitted, worker, hist>>

(* ------------ specification: the ways to leave a room ----------------- *)
InitOwnerLeaves ==
  expHours = DEFAULT_ROOM_EXP_HOURS /\ worker = WorkerOff /\ JoinedInit(ChatAuth)

\* t1 serves the owner's connection c1, t2 the connection c2 of u2
NextOwnerLeaves ==
  \/ \E t \in Tasks :
       LET c == IF t = "t1" THEN "c1" ELSE "c2" IN
         \/ LeaveStart(t, c, "1001")
         \/ leaveRoom(t, c)
         \/ disconnect(t, c)
  \/ \E t \in Tasks : LeaveStep(t)

SpecOwnerLeaves == InitOwnerLeaves /\ [][NextOwnerLeaves]_vars

(* ------------- specification: the two sweeps at one instant ----------- *)
\* expiresAt just before, at and just after the instant both sweeps read
ExpiryTimes == {RestartAt - 1, RestartAt, RestartAt + 1}

SweptRooms ==
  {NoRoom} \cup
  {[ownerId |-> "u1", isLocked |-> l # NoDate, lockedAt |-> l, isEnded |-> e,
    expiresAt |-> x] : l \in LockTimes, e \in BOOLEAN, x \in ExpiryTimes}

\* the worker runs, its timer is due; the expiry sweep is about to be called
InitSelect ==
  /\ now = RestartAt
  /\ expHours = DEFAULT_ROOM_EXP_HOURS
  /\ dbReady = TRUE
  /\ auth = ChatAuth
  /\ rooms \in [RoomCodes -> SweptRooms]
  \* fewer expired rooms than one find of the expiry sweep returns
  /\ Cardinality({r \in RoomCodes : rooms[r] # NoRoom /\ rooms[r].expiresAt < now})
       <= CleanupBatch
  /\ msgs = [m \in MsgIds |-> NoMsg]
  /\ nextId = 1
  /\ user = [c \in Conns |-> [userId |-> auth[c], nickname |-> Anonymous, roomCode |-> NoCode]]
  /\ group = [r \in RoomCodes |-> {}]
  /\ redisUp = TRUE
  /\ presence = [r \in RoomCodes |-> {}]
  /\ userHash = [u \in Users |-> NoHash]
  /\ rate = [c \in Conns |-> NoRate]
  /\ pairing = NoPairings
  /\ pc = [t \in Tasks |-> "idle"]
  /\ tconn = [t \in Tasks |-> "c1"]
  /\ loc = [t \in Tasks |-> NoLoc]
  /\ out = [t \in Tasks |-> NoOut]
  /\ emitted = {}
  /\ worker = [WorkerOff EXCEPT !.pc = "on", !.nextSweep = RestartAt]
  /\ hist = NoHist

\* both finds are issued and return at the same clock value
NextSelect ==
  \/ SweepTimer
  \/ PassQuery("sweep")
  \/ CleanupCalled("t1")
  \/ CleanupFind("t1")

SpecSelect == InitSelect /\ [][NextSelect]_vars

(* ------- specification: more expired rooms than one sweep selects ------ *)
\* both rooms were created at 0 or one lifetime later; the clock stands after
\* the lifetime of the first, so one or both have expired; each may hold a message
InitBatch ==
  /\ expHours = DEFAULT_ROOM_EXP_HOURS
  /\ worker = WorkerOff
  /\ auth = ChatAuth
  /\ now = expHours * HourMs + 1
  /\ dbReady = TRUE
  /\ \E late \in SUBSET RoomCodes :
       rooms = [r \in RoomCodes |->
                  IF r \in late THEN [RoomOf("u1") EXCEPT !.expiresAt = 2 * expHours * HourMs]
                  ELSE RoomOf("u1")]
  /\ \E full \in SUBSET RoomCodes :
       msgs = [m \in MsgIds |->
                 IF m = 1 /\ "1001" \in full
                 THEN NewMessage("1001", "u2", Nick("nova", NoSfx), <<"h">>, "text", FALSE,
                                 0, rooms["1001"].expiresAt)
                 ELSE IF m = 2 /\ "1002" \in full
                 THEN NewMessage("1002", "u2", Nick("nova", NoSfx), <<"h">>, "text", FALSE,
                                 0, rooms["1002"].expiresAt)
                 ELSE NoMsg]
  /\ nextId = 3
  /\ user = [c \in Conns |-> [userId |-> auth[c], nickname |-> Anonymous, roomCode |-> NoCode]]
  /\ group = [r \in RoomCodes |-> {}]
  /\ redisUp \in BOOLEAN
  /\ presence = [r \in RoomCodes |-> IF redisUp THEN {"u2"} ELSE {}]
  /\ userHash = [u \in Users |-> NoHash]
  /\ rate = [c \in Conns |-> NoRate]
  /\ pairing = NoPairings
  /\ pc = [t \in Tasks |-> "idle"]
  /\ tconn = [t \in Tasks |-> "c1"]
  /\ loc = [t \in Tasks |-> NoLoc]
  /\ out = [t \in Tasks |-> NoOut]
  /\ emitted = {}
  /\ hist = NoHist

\* the sweep is called at start and by its timer; a call may overlap the last
NextBatch ==
  \E t \in Tasks :
    \/ CleanupCalled(t)
    \/ CleanupFind(t)
    \/ CleanupFiles(t)
    \/ CleanupDeleteRooms(t)
    \/ CleanupDeleteMessages(t)
    \/ CleanupRedis(t)

SpecBatch == InitBatch /\ [][NextBatch]_vars

(* --------------------------- update_nickname -------------------------- *)
\* update_nickname up to ensureNicknameUniqueInRoom's first read being issued;
\* the model's non-empty names have 3 to 15 letters and pass sanitizeName as
\* they are
update_nickname(t, c, newName) ==
  /\ pc[t] = "idle"
  /\ tconn' = [tconn EXCEPT ![t] = c]
  /\ IF ~ensureUserInRoom(c) THEN Finish(t, "not_in_room", 0)
     ELSE IF newName = "" THEN Finish(t, "invalid_nickname", 0)
     ELSE Goto(t, "nick_sockets",
               [code |-> user[c].roomCode, userId |-> user[c].userId,
                nickname |-> Nick(newName, NoSfx), existing |-> {}])
  /\ UNCHANGED <<storeVars, envVars, sessionVars, redisVars, emitted, worker, hist>>

\* fetchSockets returns, then (with a coordination store) smembers / hget
UpdateNickRead(t) ==
  /\ pc[t] \in {"nick_sockets", "nick_redis"}
  /\ IF pc[t] = "nick_sockets"
     THEN Goto(t, IF redisUp THEN "nick_redis" ELSE "nick_mongo",
               [loc[t] EXCEPT !.existing = SocketNicknames(loc[t].code, loc[t].userId)])
     ELSE Goto(t, "nick_mongo",
               [loc[t] EXCEPT !.existing = @ \cup RedisNicknames(loc[t].code, loc[t].userId)])
  /\ UNCHANGED <<storeVars, envVars, sessionVars, redisVars, tconn, emitted, worker, hist>>

\* distinct('nickname') returns: the name is resolved and written to the session
UpdateNickResolve(t) ==
  /\ pc[t] = "nick_mongo"
  /\ LET c == tconn[t]
         existing == loc[t].existing \cup MongoNicknames(loc[t].code, loc[t].userId)
     IN  \E uniqueNickname \in ResolveNickname(loc[t].nickname, existing, now) :
           /\ user' = [user EXCEPT ![c].nickname = uniqueNickname]
           /\ Goto(t, IF redisUp THEN "nick_hset" ELSE "nick_messages",
                   [uniqueNickname |-> uniqueNickname])
  /\ UNCHANGED <<storeVars, envVars, group, redisVars, tconn, emitted, worker, hist>>

\* redis.hset(user:<id>, {nickname, roomCode}) with the session's values
UpdateNickHash(t) ==
  /\ pc[t] = "nick_hset"
  /\ LET c == tconn[t] IN
       userHash' = IF user[c].userId \in Users
                   THEN [userHash EXCEPT ![user[c].userId] =
                           [nickname |-> user[c].nickname, roomCode |-> user[c].roomCode]]
                   ELSE userHash
  /\ Goto(t, "nick_messages", loc[t])
  /\ UNCHANGED <<storeVars, envVars, sessionVars, presence, rate, pairing, tconn, emitted,
                 worker, hist>>

\* MessageModel.updateMany({roomCode, userId}, {nickname}) is applied, then
\* room_user_updated is broadcast
UpdateNickMessages(t) ==
  /\ pc[t] = "nick_messages"
  /\ LET c == tconn[t] IN
       /\ msgs' = [m \in MsgIds |->
                     IF msgs[m] # NoMsg /\ msgs[m].roomCode = user[c].roomCode
                                        /\ msgs[m].userId = user[c].userId
                     THEN [msgs[m] EXCEPT !.nickname = loc[t].uniqueNickname]
                     ELSE msgs[m]]
       /\ emitted' = emitted \cup Broadcast("room_user_updated", user[c].roomCode, 0)
  /\ Finish(t, "nickname_updated", 0)
  /\ UNCHANGED <<rooms, nextId, envVars, sessionVars, redisVars, tconn, worker, hist>>

(* ------------- specification: users change their nickname -------------- *)
\* what the client sends as newName
NewNames == {"Nova", "nova", ""}

\* both users are in room 1001, u1 as "Nova" or under the default name, u2 as
\* "nova#000"; each has a message there, u2 one more in room 1002
InitRename ==
  /\ expHours = DEFAULT_ROOM_EXP_HOURS
  /\ worker = WorkerOff
  /\ auth = ChatAuth
  /\ now = 0
  /\ dbReady = TRUE
  /\ rooms = [r \in RoomCodes |-> RoomOf("u1")]
  /\ \E first \in {Nick("Nova", NoSfx), Anonymous} :
       /\ user = [JoinedSessions(auth) EXCEPT !["c1"].nickname = first]
       /\ msgs = [m \in MsgIds |->
                    IF m = 1
                    THEN NewMessage("1001", "u1", first, <<"h">>, "text", FALSE, 0,
                                    expHours * HourMs)
                    ELSE NewMessage(IF m = 2 THEN "1001" ELSE "1002", "u2", Nick("nova", 0),
                                    <<"h">>, "text", FALSE, 0, expHours * HourMs)]
  /\ nextId = MaxMsgs + 1
  /\ group = [r \in RoomCodes |-> IF r = "1001" THEN Conns ELSE {}]
  /\ redisUp \in BOOLEAN
  /\ presence = [r \in RoomCodes |-> IF r = "1001" /\ redisUp THEN Users ELSE {}]
  /\ userHash = [u \in Users |->
                   IF redisUp
                   THEN [nickname |-> user[CHOOSE c \in Conns : auth[c] = u].nickname,
                         roomCode |-> "1001"]
                   ELSE NoHash]
  /\ rate = [c \in Conns |-> NoRate]
  /\ pairing = NoPairings
  /\ pc = [t \in Tasks |-> "idle"]
  /\ tconn = [t \in Tasks |-> "c1"]
  /\ loc = [t \in Tasks |-> NoLoc]
  /\ out = [t \in Tasks |-> NoOut]
  /\ emitted = {}
  /\ hist = NoHist

RenameStep(t) ==
  \/ UpdateNickRead(t) \/ UpdateNickResolve(t) \/ UpdateNickHash(t) \/ UpdateNickMessages(t)

\* t1 serves u1's update_nickname events, t2 those of u2
NextRename ==
  \/ \E n \in NewNames : update_nickname("t1", "c1", n)
  \/ \E n \in NewNames : update_nickname("t2", "c2", n)
  \/ \E t \in Tasks : RenameStep(t)

SpecRename == InitRename /\ [][NextRename]_vars

(* ------------- specification: joining, leaving and the count ----------- *)
\* room 1001 exists and nobody has joined; the two connections belong to two
\* users or to one (two tabs)
InitCount ==
  /\ now = 0
  /\ expHours = DEFAULT_ROOM_EXP_HOURS
  /\ dbReady = TRUE
  /\ auth \in {ChatAuth, OwnerAuth}
  /\ rooms = [r \in RoomCodes |-> IF r = "1001" THEN RoomOf("u1") ELSE NoRoom]
  /\ msgs = [m \in MsgIds |-> NoMsg]
  /\ nextId = 1
  /\ user = NoSessions(auth)
  /\ group = [r \in RoomCodes |-> {}]
  /\ redisUp \in BOOLEAN
  /\ presence = [r \in RoomCodes |-> {}]
  /\ userHash = [u \in Users |-> NoHash]
  /\ rate = [c \in Conns |-> NoRate]
  /\ pairing = NoPairings
  /\ pc = [t \in Tasks |-> "idle"]
  /\ tconn = [t \in Tasks |-> "c1"]
  /\ loc = [t \in Tasks |-> NoLoc]
  /\ out = [t \in Tasks |-> NoOut]
  /\ emitted = {}
  /\ worker = WorkerOff
  /\ hist = NoHist

\* t1 serves connection c1, t2 connection c2: each joins once as "Nova" and
\* leaves by the legacy event or by disconnecting
NextCount ==
  \E t \in Tasks :
    LET c == IF t = "t1" THEN "c1" ELSE "c2" IN
      \/ hist.proposed[c] = "" /\ JoinStart(t, c, "1001", "Nova")
      \/ JoinStep(t)
      \/ leaveRoom(t, c)
      \/ disconnect(t, c)
      \/ LeaveCleanup(t)

SpecCount == InitCount /\ [][NextCount]_vars

(* ----------------------------- reactions ------------------------------ *)
\* message.reactions is an object emoji -> list of userIds, held here as the
\* set of its entries
UserIdsOf(reactions, emoji) ==
  LET hit == {x \in reactions : x.emoji = emoji}
  IN  IF hit = {} THEN <<>> ELSE (CHOOSE x \in hit : TRUE).userIds

Includes(userIds, userId) == \E i \in DOMAIN userIds : userIds[i] = userId

\* reactions[emoji] = userIds / delete reactions[emoji]
SetKey(reactions, emoji, userIds) ==
  {x \in reactions : x.emoji # emoji} \cup {[emoji |-> emoji, userIds |-> userIds]}
DeleteKey(reactions, emoji) == {x \in reactions : x.emoji # emoji}

\* the addReaction event up to the service's findOne being issued
addReaction(t, c, messageId, emoji) ==
  /\ pc[t] = "idle"
  /\ tconn' = [tconn EXCEPT ![t] = c]
  /\ IF ~ensureUserInRoom(c) THEN Finish(t, "not_in_room", 0)
     ELSE Goto(t, "react_find", [op |-> "add", messageId |-> messageId, emoji |-> emoji,
                                 userId |-> user[c].userId])
  /\ UNCHANGED <<storeVars, envVars, sessionVars, redisVars, emitted, worker, hist>>

\* the removeReaction event up to the service's findOne being issued
removeReaction(t, c, messageId, emoji) ==
  /\ pc[t] = "idle"
  /\ tconn' = [tconn EXCEPT ![t] = c]
  /\ IF ~ensureUserInRoom(c) THEN Finish(t, "not_in_room", 0)
     ELSE Goto(t, "react_find", [op |-> "remove", messageId |-> messageId, emoji |-> emoji,
                                 userId |-> user[c].userId])
  /\ UNCHANGED <<storeVars, envVars, sessionVars, redisVars, emitted, worker, hist>>

\* the history with a completed reaction call of a user
Reacted(l) ==
  IF l.userId \in Users THEN [hist EXCEPT !.lastReaction[l.userId][l.emoji] = l.op] ELSE hist

\* findOne returns the document: the list of the emoji is changed on the copy
\* in memory and save() is called; an add of a user already listed returns
\* without saving
ReactionFind(t) ==
  /\ pc[t] = "react_find"
  /\ LET l == loc[t]
         message == msgs[l.messageId]
         userIds == UserIdsOf(message.reactions, l.emoji)
         filtered == SelectSeq(userIds, LAMBDA id : id # l.userId)
     IN  IF message = NoMsg
         THEN /\ Finish(t, "message_not_found", 0)
              /\ UNCHANGED <<emitted, hist>>
         ELSE IF l.op = "add" /\ Includes(userIds, l.userId)
         THEN /\ emitted' = emitted \cup Broadcast("reactionAdded", user[tconn[t]].roomCode,
                                                   l.messageId)
              /\ hist' = Reacted(l)
              /\ Finish(t, "reactionAdded", l.messageId)
         ELSE /\ Goto(t, "react_save",
                      [op |-> l.op, messageId |-> l.messageId, emoji |-> l.emoji,
                       userId |-> l.userId,
                       reactions |->
                         IF l.op = "add"
                         THEN SetKey(message.reactions, l.emoji, Append(userIds, l.userId))
                         ELSE IF filtered = <<>> THEN DeleteKey(message.reactions, l.emoji)
                         ELSE SetKey(message.reactions, l.emoji, filtered)])
              /\ UNCHANGED <<emitted, hist>>
  /\ UNCHANGED <<storeVars, envVars, sessionVars, redisVars, tconn, worker>>

\* message.save() writes the reactions of the copy in memory over the stored
\* ones; the event is broadcast. A document deleted meanwhile makes save throw.
ReactionSave(t) ==
  /\ pc[t] = "react_save"
  /\ LET l == loc[t] IN
       IF msgs[l.messageId] = NoMsg
       THEN /\ Finish(t, "reaction_failed", 0)
            /\ UNCHANGED <<msgs, emitted, hist>>
       ELSE /\ msgs' = [msgs EXCEPT ![l.messageId].reactions = l.reactions]
            /\ emitted' = emitted \cup
                 Broadcast(IF l.op = "add" THEN "reactionAdded" ELSE "reactionRemoved",
                           user[tconn[t]].roomCode, l.messageId)
            /\ hist' = Reacted(l)
            /\ Finish(t, IF l.op = "add" THEN "reactionAdded" ELSE "reactionRemoved",
                      l.messageId)
  /\ UNCHANGED <<rooms, nextId, envVars, sessionVars, redisVars, tconn, worker>>

(* --------------- specification: two users react to a message ---------- *)
\* t1 serves u1's events, t2 those of u2; both react to message 1
NextReact ==
  \/ \E t \in Tasks, e \in Emojis :
       LET c == IF t = "t1" THEN "c1" ELSE "c2" IN
         addReaction(t, c, 1, e) \/ removeReaction(t, c, 1, e)
  \/ \E t \in Tasks : ReactionFind(t) \/ ReactionSave(t)

SpecReact == InitModerate /\ [][NextReact]_vars

(* ---------------------- editMessage / edit_message -------------------- *)
\* the author check left out
MayEdit_Anyone(message, authUserId) == TRUE

\* message.userId === authUserId
MayEdit(message, authUserId) == message.userId = authUserId

\* editMessage up to the message lookup being issued
editMessage(t, c, messageId, newContent) ==
  /\ pc[t] = "idle"
  /\ tconn' = [tconn EXCEPT ![t] = c]
  /\ IF ~ensureUserInRoom(c) THEN Finish(t, "not_in_room", 0)
     ELSE IF Trim(sanitizeText(newContent)) = <<>> THEN Finish(t, "empty_content", 0)
     ELSE Goto(t, "edit_find", [messageId |-> messageId,
                                newContent |-> sanitizeText(newContent)])
  /\ UNCHANGED <<storeVars, envVars, sessionVars, redisVars, emitted, worker, hist>>

\* the edit_message alias runs the same steps
edit_message(t, c, messageId, newContent) == editMessage(t, c, messageId, newContent)

\* findOne({id}) returns: not found and not the author end the handler,
\* otherwise content and editedAt are set on the copy and save() is called
EditFind(t) ==
  /\ pc[t] = "edit_find"
  /\ LET message == msgs[loc[t].messageId] IN
       IF message = NoMsg THEN Finish(t, "message_not_found", 0)
       ELSE IF ~MayEdit(message, AuthUserId(tconn[t]))
       THEN Finish(t, "edit_unauthorized", 0)
       ELSE Goto(t, "edit_save", [messageId |-> loc[t].messageId,
                                  content |-> loc[t].newContent, editedAt |-> now])
  /\ UNCHANGED <<storeVars, envVars, sessionVars, redisVars, tconn, emitted, worker, hist>>

\* save() writes content and editedAt; messageEdited is broadcast to the
\* session's room. A document deleted meanwhile makes save throw.
EditSave(t) ==
  /\ pc[t] = "edit_save"
  /\ LET l == loc[t] IN
       IF msgs[l.messageId] = NoMsg
       THEN /\ Finish(t, "edit_failed", 0)
            /\ UNCHANGED <<msgs, emitted>>
       ELSE /\ msgs' = [msgs EXCEPT ![l.messageId].content = l.content,
                                    ![l.messageId].editedAt = l.editedAt]
            /\ emitted' = emitted \cup
                 Broadcast("messageEdited", user[tconn[t]].roomCode, l.messageId)
            /\ Finish(t, "messageEdited", l.messageId)
  /\ UNCHANGED <<rooms, nextId, envVars, sessionVars, redisVars, tconn, worker, hist>>

(* ------------------- specification: editing messages ------------------ *)
EditContents == {<<"h", "h">>, <<"CTL", "h", "h">>, <<"SP">>}

\* as for deleting and pinning, at a later time, with room 1001 active or
\* locked by its owner u1 (who came back)
InitEdit ==
  /\ expHours = DEFAULT_ROOM_EXP_HOURS
  /\ worker = WorkerOff
  /\ auth = ChatAuth
  /\ now = AUTO_VANISH_INTERVAL_MS
  /\ dbReady = TRUE
  /\ \E locked \in BOOLEAN :
       rooms = [r \in RoomCodes |->
                  IF r = "1001"
                  THEN [RoomOf("u1") EXCEPT !.isLocked = locked,
                                            !.lockedAt = IF locked THEN 0 ELSE NoDate]
                  ELSE RoomOf("u2")]
  /\ msgs = [m \in MsgIds |->
               IF m = 1 THEN NewMessage("1001", "u1", Nick("Nova", NoSfx), <<"h">>, "text",
                                        FALSE, 0, rooms["1001"].expiresAt)
               ELSE IF m = 2 THEN NewMessage("1001", "u2", Nick("nova", 0), <<"h">>, "text",
                                             FALSE, 0, rooms["1001"].expiresAt)
               ELSE NoMsg]
  /\ nextId = 3
  /\ user = JoinedSessions(auth)
  /\ group = [r \in RoomCodes |-> IF r = "1001" THEN Conns ELSE {}]
  /\ redisUp = FALSE
  /\ presence = [r \in RoomCodes |-> {}]
  /\ userHash = [u \in Users |-> NoHash]
  /\ rate = [c \in Conns |-> NoRate]
  /\ pairing = NoPairings
  /\ pc = [t \in Tasks |-> "idle"]
  /\ tconn = [t \in Tasks |-> "c1"]
  /\ loc = [t \in Tasks |-> NoLoc]
  /\ out = [t \in Tasks |-> NoOut]
  /\ emitted = {}
  /\ hist = NoHist

\* either user asks to edit either message, by either event
NextEdit ==
  \/ \E t \in Tasks, c \in Conns, m \in {1, 2}, x \in EditContents : editMessage(t, c, m, x)
  \/ \E t \in Tasks, c \in Conns, m \in {1, 2}, x \in EditContents : edit_message(t, c, m, x)
  \/ \E t \in Tasks : EditFind(t)
  \/ \E t \in Tasks : EditSave(t)

SpecEdit == InitEdit /\ [][NextEdit]_vars

(* ---- specification: a connection joins a room that is being vanished --- *)
\* u1 is in room 1001; the connection of u2 is open and has not joined
InitVanishJoin ==
  /\ expHours = DEFAULT_ROOM_EXP_HOURS
  /\ worker = WorkerOff
  /\ auth = ChatAuth
  /\ now = 0
  /\ dbReady = TRUE
  /\ rooms = [r \in RoomCodes |-> IF r = "1001" THEN RoomOf("u1") ELSE NoRoom]
  /\ msgs = [m \in MsgIds |-> NoMsg]
  /\ nextId = 1
  /\ user = [NoSessions(auth) EXCEPT !["c1"] = JoinedSessions(auth)["c1"]]
  /\ group = [r \in RoomCodes |-> IF r = "1001" THEN {"c1"} ELSE {}]
  /\ redisUp \in BOOLEAN
  /\ presence = [r \in RoomCodes |-> IF r = "1001" /\ redisUp THEN {"u1"} ELSE {}]
  /\ userHash = [u \in Users |->
                   IF redisUp /\ u = "u1"
                   THEN [nickname |-> user["c1"].nickname, roomCode |-> "1001"]
                   ELSE NoHash]
  /\ rate = [c \in Conns |-> NoRate]
  /\ pairing = NoPairings
  /\ pc = [t \in Tasks |-> "idle"]
  /\ tconn = [t \in Tasks |-> "c1"]
  /\ loc = [t \in Tasks |-> NoLoc]
  /\ out = [t \in Tasks |-> NoOut]
  /\ emitted = {}
  /\ hist = NoHist

\* the administrator's request runs as t1 while u2's joinRoom runs as t2
NextVanishJoin ==
  \/ vanishRoom("t1", "1001")
  \/ VanishCtlRead("t1")
  \/ VanishCacheInvalidated("t1")
  \/ adminVanishRoom("t1")
  \/ \E n \in ProposedNames : hist.proposed["c2"] = "" /\ JoinStart("t2", "c2", "1001", n)
  \/ JoinStep("t2")

SpecVanishJoin == InitVanishJoin /\ [][NextVanishJoin]_vars

(* ============================== claims ================================ *)
\* the room record of this code exists and has isLocked = true
LockedRecord(code) ==
  /\ code \in RoomCodes
  /\ rooms[code] # NoRoom
  /\ rooms[code].isLocked

\* C1: a sendMessage whose room lookup finds the record locked ends there: the
\* caller gets the "room is locked" error, no message is stored, no newMessage
\* is broadcast and the rate-limit counter is not touched.
C1_LockedSendRejected ==
  [][\A t \in Tasks :
       (pc[t] = "send_room" /\ pc'[t] # "send_room" /\ LockedRecord(loc[t].code))
       => /\ pc'[t] = "idle"
          /\ out'[t].res = "room_locked"
          /\ msgs' = msgs
          /\ emitted' = emitted
          /\ rate' = rate]_vars

\* C1 witness: a member's send was rejected because the room is locked, after
\* the same member had a message stored while the room was still open
C1_Witness ==
  \E t \in Tasks :
    /\ out[t].res = "room_locked"
    /\ tconn[t] = "c2"
    /\ LockedRecord("1001")
    /\ \E m \in StoredMsgs : msgs[m].userId = "u2"

\* the time the grace period of room r ends: 24 hours after it was locked
GraceEnd(r) == hist.lockedAt[r] + AUTO_VANISH_HOURS * HourMs

\* room r was locked, not ended, and the sweep interval after its grace
\* period has passed
VanishOverdue(r) ==
  /\ hist.lockedAt[r] # NoDate
  /\ ~hist.ended[r]
  /\ now > GraceEnd(r) + AUTO_VANISH_INTERVAL_MS

\* room r was deleted by the periodic sweep, after its grace period and at
\* most one sweep interval later
VanishedBySweep(r) ==
  /\ hist.vanish[r].by = "sweep"
  /\ hist.vanish[r].at >= GraceEnd(r)
  /\ hist.vanish[r].at <= GraceEnd(r) + AUTO_VANISH_INTERVAL_MS

\* C3 as stated: every room locked at T and not ended, whatever its expiresAt,
\* has been deleted by the periodic sweep within [T+24h, T+24h+interval] once
\* that time has passed.
C3_VanishedInTime == \A r \in RoomCodes : VanishOverdue(r) => VanishedBySweep(r)

\* C3 amended: the same for rooms whose expiresAt lies beyond the end of that
\* window, T+24h+interval; a room that expires earlier is left to expiry.
C3_VanishedBeforeExpiry ==
  \A r \in RoomCodes :
    (VanishOverdue(r) /\ expHours * HourMs > GraceEnd(r) + AUTO_VANISH_INTERVAL_MS)
    => VanishedBySweep(r)

\* C3 witness: a room with the long lifetime was locked, its window has
\* passed and the sweep has deleted it
C3_Witness ==
  /\ expHours * HourMs > GraceEnd("1001") + AUTO_VANISH_INTERVAL_MS
  /\ VanishOverdue("1001")
  /\ hist.vanish["1001"].by = "sweep"
  /\ rooms["1001"] = NoRoom

\* C4: a room deleted by the sweep or by the recovery pass was, when that
\* pass's query saw it, locked, not ended, and locked at least 24 hours before
\* the time of the query; it was still locked, with the same lockedAt, when it
\* was deleted.
C4_GraceRespected ==
  \A r \in RoomCodes :
    hist.vanish[r].by \in Passes =>
      LET v == hist.vanish[r] IN
        /\ v.seen # NoRoom
        /\ v.seen.isLocked
        /\ ~v.seen.isEnded
        /\ v.seen.lockedAt # NoDate
        /\ v.queryAt - v.seen.lockedAt >= AUTO_VANISH_HOURS * HourMs
        /\ v.last.isLocked
        /\ v.last.lockedAt = v.seen.lockedAt

\* C4 witness: both passes have returned, one room was deleted by a pass, and
\* a room that was ended, or locked for no more than 24 hours, is still there
C4_Witness ==
  /\ worker.pc = "on" /\ worker.sweep.pc = "idle" /\ worker.recover.pc = "idle"
  /\ hist.vanish["1001"].by \in Passes
  /\ rooms["1002"] # NoRoom
  /\ rooms["1002"].isLocked
  /\ rooms["1002"].isEnded \/ now - rooms["1002"].lockedAt <= AUTO_VANISH_HOURS * HourMs

\* room r was stuck when the process started: locked for more than 24 hours
\* and not ended
StuckAtBoot(r) ==
  /\ hist.bootRooms[r] # NoRoom
  /\ hist.bootRooms[r].isLocked
  /\ ~hist.bootRooms[r].isEnded
  /\ hist.bootRooms[r].lockedAt + AUTO_VANISH_HOURS * HourMs < hist.bootAt

\* C5: once the recovery pass started by startAutoVanishWorker has returned,
\* every room that was stuck at startup and has not been ended is deleted.
C5_RecoveryDeletes ==
  \A r \in RoomCodes :
    (/\ worker.pc = "on"
     /\ worker.recover.pc = "idle"
     /\ StuckAtBoot(r)
     /\ ~hist.ended[r])
    => rooms[r] = NoRoom

\* connection c has completed the nickname resolution of its joinRoom
Resolved(c) == user[c].roomCode # NoCode /\ c \in group[user[c].roomCode]

\* C6: two connections of different users that joined the same room with the
\* same proposed nickname hold nicknames that differ case-insensitively.
C6_DistinctNicknames ==
  \A c, d \in Conns :
    (/\ c # d
     /\ Resolved(c) /\ Resolved(d)
     /\ user[c].roomCode = user[d].roomCode
     /\ user[c].userId # user[d].userId
     /\ hist.proposed[c] # "" /\ hist.proposed[c] = hist.proposed[d])
    => toLowerCase(user[c].nickname) # toLowerCase(user[d].nickname)

\* every nickname the three sources hold for users of the room other than uid
HeldByOthers(code, uid) ==
  {toLowerCase(user[c].nickname) : c \in {d \in group[code] : user[d].userId # uid}}
  \cup {toLowerCase(userHash[u].nickname) :
          u \in {v \in presence[code] : v # uid /\ userHash[v] # NoHash}}
  \cup {toLowerCase(msgs[m].nickname) : m \in {k \in RoomMsgs(code) : msgs[k].userId # uid}}

\* C7: the nickname resolved for u2 equals, case-insensitively, no nickname the
\* three sources hold for another user, and it is the proposed name itself
\* when no other user holds that name.
C7_ResultUnique ==
  Resolved("c2") =>
    LET result == user["c2"].nickname
        proposed == Nick(hist.proposed["c2"], NoSfx)
        held == HeldByOthers("1001", "u2")
    IN  /\ toLowerCase(result) \notin held
        /\ toLowerCase(proposed) \notin held => result = proposed

\* C8: two stored text messages of the same sender, room and content are never
\* created within the 5-second window of each other (the second request found
\* the first and was answered with its id).
C8_OneMessagePerWindow ==
  \A m1, m2 \in StoredMsgs :
    (/\ m1 # m2
     /\ msgs[m1].type = "text" /\ msgs[m2].type = "text"
     /\ msgs[m1].userId = msgs[m2].userId
     /\ msgs[m1].userId # SystemUser
     /\ msgs[m1].roomCode = msgs[m2].roomCode
     /\ msgs[m1].content = msgs[m2].content
     /\ msgs[m1].createdAt <= msgs[m2].createdAt)
    => msgs[m2].createdAt - msgs[m1].createdAt > TEXT_DEDUP_WINDOW_MS


\* the "Admin has left" notices stored for a room
LockNotices(code) ==
  {m \in RoomMsgs(code) : msgs[m].userId = SystemUser /\ msgs[m].content = LockNotice}

\* C2: whatever the interleaving of the owner's leave_room events, lockedAt of
\* a room is written at most once and at most one "Admin has left" notice is
\* stored for it.
C2_LockedOnce ==
  \A r \in RoomCodes :
    /\ hist.lockWrites[r] <= 1
    /\ Cardinality(LockNotices(r)) <= 1


\* the requester of task t is the owner of the room its deleteMessage names
\* (data.roomId, or the room of its session)
RequesterOwnsRoom(t) ==
  /\ RoomExists(loc[t].roomId)
  /\ rooms[loc[t].roomId].ownerId = auth[tconn[t]]

\* C9: when a deleteMessage request is carried out on a record that is still
\* there, the author's request removes it; the request of the room's owner
\* who is not the author leaves it with deletedByAdmin = true, the placeholder
\* content and no file; a requester who is neither is told so when the
\* permission check is made, and no record changes.
C9_DeleteByRole ==
  [][\A t \in Tasks :
       LET m == loc[t].messageId IN
         /\ (pc[t] = "del_apply" /\ pc'[t] # "del_apply" /\ MsgExists(m))
            => IF msgs[m].userId = auth[tconn[t]]
               THEN msgs'[m] = NoMsg
               ELSE RequesterOwnsRoom(t)
                    => /\ msgs'[m] # NoMsg
                       /\ msgs'[m].deletedByAdmin
                       /\ msgs'[m].content = AdminPlaceholder
                       /\ ~msgs'[m].hasFile
                       /\ msgs'[m].userId = msgs[m].userId
         /\ (/\ pc[t] = "del_room" /\ pc'[t] # "del_room"
             /\ RoomExists(loc[t].roomId)
             /\ loc[t].author # auth[tconn[t]]
             /\ ~RequesterOwnsRoom(t))
            => /\ out'[t].res = "unauthorized"
               /\ pc'[t] = "idle"
               /\ msgs' = msgs
               /\ emitted' = emitted
         /\ (pc[t] \notin {"del_apply", "idle"} /\ pc'[t] # pc[t] /\ msgs' # msgs)
            => \E u \in Tasks : u # t /\ pc[u] = "del_apply" /\ pc'[u] # "del_apply"]_vars

\* C9 witness: the owner u1 has soft-deleted u2's file message, u1's own message
\* was removed by its author, and a request of u2, who is neither author nor
\* owner, was rejected
C9_Witness ==
  /\ msgs[1] = NoMsg
  /\ msgs[2] # NoMsg /\ msgs[2].deletedByAdmin /\ msgs[2].content = AdminPlaceholder
  /\ ~msgs[2].hasFile /\ msgs[2].userId = "u2"
  /\ \E t \in Tasks : out[t].res = "unauthorized" /\ tconn[t] = "c2"
  /\ \E t \in Tasks : out[t].res = "deleted" /\ out[t].mid = 1 /\ tconn[t] = "c1"

\* the pinned messages of a room
Pinned(code) == {m \in RoomMsgs(code) : msgs[m].isPinned}

\* C10: in every reachable state, also those reached by interleaved pinMessage
\* calls, no room has more than one message with isPinned = true.
C10_AtMostOnePinned ==
  \A r \in RoomCodes : Cardinality(Pinned(r)) <= 1


(* C11: when an administrator vanishes an active or locked room, every
   connection in the room's group is sent room_vanished before it is removed
   from the group, and when adminVanishRoom returns the room is found by no
   lookup and has no stored message. *)
C11_AdminVanishComplete ==
  [][\A t \in Tasks, r \in RoomCodes :
       /\ (pc[t] = "vanish_delay" /\ loc[t].code = r /\ pc'[t] = "vanish_files")
            => /\ group[r] \subseteq hist'.vanishedTo[r]
               /\ group'[r] = {}
       /\ (pc[t] = "vanish_audit" /\ loc[t].code = r /\ out'[t].res = "vanished")
            => (~RoomExists(r) /\ RoomMsgs(r) = {})']_vars

\* the sends of connection c admitted since its counter key was created
AdmittedInWindow(c) == IF rate[c].count = 0 THEN 0 ELSE hist.admitted[c]

RECURSIVE AdmittedOver(_)
AdmittedOver(S) ==
  IF S = {} THEN 0
  ELSE LET c == CHOOSE x \in S : TRUE IN AdmittedInWindow(c) + AdmittedOver(S \ {c})

\* the store was reachable for every counter operation of the connections S
StoreReachable(S) == redisUp /\ \A c \in S : ~hist.failed[c]

(* C12: while the coordination store is reachable, the same sender has at
   most 30 sendMessage requests admitted within one 60-second window under
   any interleaving. (Every key that exists was created at most 60 seconds
   ago, so the sends counted here all fall within the last 60 seconds.) *)
C12_SenderCeiling ==
  \A u \in Users :
    LET S == {c \in Conns : user[c].userId = u} IN
      StoreReachable(S) => AdmittedOver(S) <= SEND_MAX_REQUESTS

(* C12, per connection: while the store is reachable, one connection has at
   most 30 sendMessage requests admitted within one window of its counter,
   and the request that takes the count past 30 is rejected as rate-limited
   and stores no message. *)
C12_ConnectionCeiling ==
  [][/\ \A c \in Conns :
          StoreReachable({c})' => AdmittedInWindow(c)' <= SEND_MAX_REQUESTS
     /\ \A t \in Tasks :
          (/\ pc[t] = "send_rate" /\ pc'[t] # pc[t]
           /\ rate[tconn[t]].count >= SEND_MAX_REQUESTS
           /\ rate'[tconn[t]].count = rate[tconn[t]].count + 1)
            => /\ pc'[t] = "idle"
               /\ out'[t].res = "rate_limited"
               /\ msgs' = msgs]_vars

\* the 31st send of c1 within its window has been rejected
C12_Witness ==
  /\ StoreReachable({"c1"})
  /\ rate["c1"].count = SEND_MAX_REQUESTS + 1
  /\ AdmittedInWindow("c1") = SEND_MAX_REQUESTS
  /\ \E t \in Tasks : tconn[t] = "c1" /\ out[t].res = "rate_limited"

\* a limiter call of connection c stands between its incr and its expire
ArmingExpiry(c) == \E t \in Tasks : pc[t] = "send_expire" /\ tconn[t] = c

(* C13: every rate-limit counter key that exists has an expiry armed once
   the limiter call that created it is over, whatever the store did (also
   when expire failed after a successful increment), so that the counter is
   removed when its window ends. *)
C13_ExpiryArmed ==
  \A c \in Conns :
    (rate[c].count > 0 /\ ~ArmingExpiry(c)) => rate[c].expireAt # NoDate

(* C14: whenever the coordination store is not ready, or a counter operation
   throws, socketRateLimiter and the HTTP rateLimiter admit the action: the
   send goes on to the duplicate check, the request to next(); neither is
   rejected. *)
C14_FailOpen ==
  [][\A t \in Tasks :
       /\ ~redisUp => out'[t].res \notin {"rate_limited", "429"}
       /\ (pc[t] \in {"send_rate", "send_expire"} /\ rate' = rate /\ pc'[t] # pc[t])
            => pc'[t] = "send_dedup"
       /\ (pc[t] \in {"limiter_incr", "limiter_expire"} /\ rate' = rate
           /\ pc'[t] # pc[t])
            => out'[t].res = "next"]_vars

\* a send was admitted after its counter operation threw, and so was a request
C14_Witness ==
  /\ hist.failed["c1"]
  /\ hist.failed["ip1"]
  /\ pc["t1"] = "send_dedup" /\ tconn["t1"] = "c1"
  /\ out["t2"].res = "next"

(* C15: after a terminal operation on a room has completed successfully
   (here the owner's end), the room record no longer exists: every later
   lookup by code returns not-found and no connection can join the room. *)
C15_EndedRoomGone ==
  [][\A r \in RoomCodes :
       hist.ended[r] => (~RoomExists(r) /\ group'[r] \subseteq group[r])]_vars

\* connection c is registered in the group of the room its session names
InGroup(c) == \E r \in RoomCodes : user[c].roomCode = r /\ c \in group[r]

(* C16: a sendMessage from a connection that is not registered in the group
   of its room (never joined, join not completed, already left, force-removed
   by a vanish) is rejected with an error and stores no message, even if the
   session still holds a room code. *)
C16_SendNeedsMembership ==
  [][\A t \in Tasks :
       (/\ pc[t] = "idle"
        /\ hist'.sends = hist.sends + 1
        /\ (pc'[t] # pc[t] \/ out'[t] # out[t] \/ tconn'[t] # tconn[t])
        /\ ~InGroup(tconn'[t]))
         => /\ pc'[t] = "idle"
            /\ out'[t].res = "not_in_room"
            /\ msgs' = msgs]_vars

\* a connection removed by the vanish, its session still naming the room,
\* had its send rejected
C16_Witness ==
  \E t \in Tasks :
    /\ out[t].res = "not_in_room"
    /\ pc[t] = "idle"
    /\ user[tconn[t]].roomCode = "1001"
    /\ tconn[t] \notin group["1001"]
    /\ hist.vanishedTo["1001"] # {}

\* what joinRoom would write on success: the group, the session's room code
\* and the presence store
MembershipUnchanged ==
  /\ group' = group
  /\ \A c \in Conns : user'[c].roomCode = user[c].roomCode
  /\ presence' = presence
  /\ userHash' = userHash

(* C17: joinRoom for a code without a room record, or for a room whose
   expiresAt has passed, emits an error and changes none of: the group (the
   connection is not added), the session's room code, the presence store. *)
C17_FailedJoinChangesNothing ==
  [][\A t \in Tasks :
       /\ (pc[t] = "idle" /\ pc'[t] = "join_room") => MembershipUnchanged
       /\ (/\ pc[t] = "join_room" /\ pc'[t] # pc[t]
           /\ \/ findRoom(loc[t].code) = NoRoom
              \/ now > findRoom(loc[t].code).expiresAt)
            => /\ pc'[t] = "idle"
               /\ out'[t].res \in {"room_not_found", "room_expired"}
               /\ MembershipUnchanged]_vars

\* one joinRoom ended on a missing room and one on an expired room, the
\* connections are where they were
C17_Witness ==
  /\ \E t \in Tasks : out[t].res = "room_not_found"
  /\ \E t \in Tasks : out[t].res = "room_expired"
  /\ group = [r \in RoomCodes |-> IF r = "1001" THEN {"c1"} ELSE {}]
  /\ user["c2"].roomCode = NoCode

(* C18: a pairing code is single-use: of all validatePairingCode calls for a
   code generated once, in any order or interleaving, at most one returns
   {roomCode, userId}; every other returns null. *)
C18_PairingSingleUse == \A k \in PairingCodes : hist.paired[k] <= 1

(* C19: on every delete entry point (deleteMessage and delete_message), when
   the owner of the room deletes a message of another user the record is
   retained, with the placeholder and deletedByAdmin = true; an owner never
   removes a message they did not author. *)
C19_OwnerDeleteRetains ==
  [][\A t \in Tasks :
       LET m == loc[t].messageId IN
         (/\ pc[t] = "del_apply" /\ pc'[t] # "del_apply" /\ MsgExists(m)
          /\ msgs[m].userId # auth[tconn[t]]
          /\ RequesterOwnsRoom(t))
           => /\ msgs'[m] # NoMsg
              /\ msgs'[m].deletedByAdmin
              /\ msgs'[m].content = AdminPlaceholder]_vars

\* the steps one deletion path logged on room r, in the order they happened
PathLog(path, r) ==
  LET ByPath(e) == e.by = path IN SelectSeq(hist.purge[r], ByPath)

\* files, messages, room record, coordination-store keys, audit/analytics
StepRank(step) ==
  CASE step = "files" -> 1
    [] step = "messages" -> 2
    [] step = "room" -> 3
    [] step = "redis" -> 4
    [] step = "audit" -> 5

DeletionPaths == {"adminVanishRoom", "destroy_room", "cleanupExpiredRooms"}

\* the steps of s happened in the order of their ranks
InOrder(s) ==
  \A i, j \in 1 .. Len(s) : i < j => StepRank(s[i].step) < StepRank(s[j].step)

\* a deletion of the room record in s came after a file purge and after a
\* deletion of the messages
PurgedBeforeRecord(s) ==
  \A i \in 1 .. Len(s) :
    s[i].step = "room" =>
      /\ \E j \in 1 .. i - 1 : s[j].step = "files"
      /\ \E j \in 1 .. i - 1 : s[j].step = "messages"

(* C20: every room deletion path performs its steps in the order files,
   messages, room record, coordination-store keys, audit/analytics
   notification: no path deletes the room record before or concurrently with
   the room's messages, and no path skips the file purge. *)
C20_DeletionOrder ==
  \A path \in DeletionPaths, r \in RoomCodes :
    /\ InOrder(PathLog(path, r))
    /\ PurgedBeforeRecord(PathLog(path, r))

(* C21: crash safety of deletion: in whatever state a deletion path is
   interrupted, a room that still has messages still has its room record (so
   a later sweep or recovery pass selects it again). An interruption leaves
   the store as it is in the state where it happens, so this is required of
   every state the deletion paths reach. *)
C21_RecordOutlivesMessages ==
  \A r \in RoomCodes : RoomMsgs(r) # {} => RoomExists(r)

\* a step of task t changed the record of room r or removed messages of it
ChangesRoomData(t, r) ==
  /\ pc'[t] # pc[t]
  /\ pc[t] \in {"destroy_msgs", "destroy_record", "end_update", "close_msgs",
               "close_record"}
  /\ loc[t].code = r
  /\ \/ rooms'[r] # rooms[r]
     \/ \E m \in RoomMsgs(r) : msgs'[m] = NoMsg

(* C22: every socket event that ends or destroys a room on behalf of its
   owner (destroy_room, admin_close_room, endRoom) changes or deletes room
   data only if the connection's handshake userId is present and equal to the
   stored ownerId; a room token or a userId in the payload does not suffice. *)
C22_OnlyOwnerEnds ==
  [][\A t \in Tasks, r \in RoomCodes :
       ChangesRoomData(t, r)
         => /\ auth[tconn[t]] # ""
            /\ RoomExists(r)
            /\ auth[tconn[t]] = rooms[r].ownerId]_vars

\* a step of task t sent room_vanished to the group of room r
EmitsVanished(t, r) ==
  /\ pc'[t] # pc[t]
  /\ pc[t] \in {"vanish_delay", "aend_record"}
  /\ loc[t].code = r

(* C23: a room is vanished (room_vanished emitted and the room deleted) only
   by a request that authenticated as administrator (or by the auto-vanish
   timer, which serves no request): a caller who is the room's owner and not
   an administrator never causes a vanish. *)
C23_OnlyAdminVanishes ==
  [][\A t \in Tasks, r \in RoomCodes : EmitsVanished(t, r) => hist.isAdmin[t]]_vars

\* what one deletion of room r leaves: no record, no messages, no presence
\* set and no user hash naming the room
DeletedOnce(r) ==
  /\ ~RoomExists(r)
  /\ RoomMsgs(r) = {}
  /\ redisUp => /\ presence[r] = {}
                /\ \A u \in Users : userHash[u] # NoHash => userHash[u].roomCode # r

(* C24: the deletion routine is idempotent: permanentlyDeleteRoom applied to
   a room that is already deleted, or run for the same room by the periodic
   sweep and the recovery pass concurrently, raises no error in either caller
   and leaves the state a single deletion leaves. *)
C24_DeletionIdempotent ==
  \A p \in Passes, r \in RoomCodes :
    /\ worker[p].stage[r] # "failed"
    /\ worker[p].stage[r] = "done" => DeletedOnce(r)

\* the sweep and the recovery pass both selected room 1001 and both returned
\* from permanentlyDeleteRoom for it
C24_Witness ==
  /\ worker.sweep.stage["1001"] = "done"
  /\ worker.recover.stage["1001"] = "done"
  /\ hist.vanish["1001"].by \in Passes

(* C25: failure isolation in the sweep: if deleting one selected room fails,
   the periodic sweep still attempts every other room it selected in that
   pass, and it returns the number of rooms it deleted. *)
C25_SweepIsolatesFailure ==
  worker.sweep.pc = "idle" =>
    /\ \A r \in RoomCodes : worker.sweep.stage[r] \in {"none", "done", "failed"}
    /\ vanishedCount(worker.sweep) =
         Cardinality({r \in RoomCodes : worker.sweep.seen[r] # NoRoom
                                        /\ worker.sweep.stage[r] # "failed"})

\* a sweep that selected both rooms has returned: the deletion of one failed,
\* the other is deleted
C25_Witness ==
  /\ worker.sweep.pc = "idle"
  /\ \E r, q \in RoomCodes :
       /\ worker.sweep.stage[r] = "failed"
       /\ worker.sweep.stage[q] = "done"
       /\ ~RoomExists(q)

\* connection c is the verified owner of room code, which is not ended
OwnerOfLiveRoom(c, code) ==
  /\ RoomExists(code)
  /\ ~rooms[code].isEnded
  /\ auth[c] # ""
  /\ rooms[code].ownerId = auth[c]

(* C26: when the verified owner of an Active room leaves without ending it,
   by leave_room, by the legacy leaveRoom or by disconnect, the room becomes
   Locked, in the order: isLocked/lockedAt stored, system lock message
   created and broadcast, room_locked broadcast. So room_locked is sent for a
   room already stored as locked, together with the lock message, and when
   the owner's leave completes the room is locked and room_locked was sent. *)
C26_OwnerLeaveLocks ==
  [][\A t \in Tasks, r \in RoomCodes :
       /\ (/\ pc[t] = "leave_sys_save" /\ pc'[t] # pc[t] /\ loc[t].roomId = r
           /\ RoomExists(r))
            => /\ rooms[r].isLocked /\ rooms[r].lockedAt # NoDate
               /\ \E m \in MsgIds : /\ Emit("newMessage", r, m) \in emitted'
                                    /\ msgs'[m] # NoMsg
                                    /\ msgs'[m].content = LockNotice
               /\ Emit("room_locked", r, 0) \in emitted'
       /\ (/\ pc[t] = "leave_cleanup" /\ pc'[t] = "idle" /\ loc[t].roomId = r
           /\ OwnerOfLiveRoom(tconn[t], r))
            => /\ rooms'[r].isLocked
               /\ Emit("room_locked", r, 0) \in emitted']_vars

\* the state adminVanishRoom leaves for room r: its members were sent
\* room_vanished and are out of the group, and the room is deleted
VanishedAsByAdmin(r) ==
  /\ Emit("room_vanished", r, 0) \in emitted
  /\ group[r] = {}
  /\ DeletedOnce(r)

(* C27: auto-vanish deletion is observationally equivalent to administrator
   vanish: a room the sweep or the recovery pass has deleted is in the state
   adminVanishRoom leaves, its connected members sent a vanish event and
   removed from the room group, its messages, record and presence keys gone. *)
C27_AutoVanishAsAdminVanish ==
  \A p \in Passes, r \in RoomCodes :
    (worker[p].stage[r] = "done" /\ hist.vanish[r].by = p) => VanishedAsByAdmin(r)

(* C28: lock is a barrier for new content under concurrency: in every
   interleaving of a member's sendMessage with the owner's leave_room, no
   user-authored message is stored in the room after the write that set
   isLocked = true. *)
C28_LockIsBarrier ==
  [][\A m \in MsgIds :
       (msgs[m] = NoMsg /\ msgs'[m] # NoMsg /\ msgs'[m].userId # SystemUser)
         => ~LockedRecord(msgs'[m].roomCode)]_vars

\* a pass is running: it was called and has not returned
Running(pass) == pass.pc \in {"query", "run"}

(* C29: startup ordering: the recovery pass has performed its deletions
   before the first regular sweep issues its query; the first sweep never
   runs concurrently with the recovery pass. *)
C29_RecoveryBeforeFirstSweep ==
  Running(worker.sweep) => ~Running(worker.recover)

\* the find of processAutoVanish has returned / has selected room r
SweepFound == worker.sweep.queryAt # NoDate /\ worker.sweep.pc # "query"
SweepSelects(r) == worker.sweep.seen[r] # NoRoom
\* the find of cleanupExpiredRooms has returned / has selected room r
ExpiryFound ==
  \/ pc["t1"] = "cleanup_files"
  \/ pc["t1"] = "idle" /\ out["t1"].res = "no_expired_rooms"
ExpirySelects(r) == pc["t1"] = "cleanup_files" /\ r \in loc["t1"].roomCodes
BothFound == SweepFound /\ ExpiryFound

\* an existing room, locked more than 24 hours ago and not ended
LockedPastGrace(r) ==
  /\ RoomExists(r)
  /\ rooms[r].isLocked
  /\ rooms[r].lockedAt # NoDate /\ rooms[r].lockedAt < now - GraceMs
  /\ ~rooms[r].isEnded

(* C30 as stated: with both sweeps reading the same clock value, every
   existing room that is locked, locked more than 24 hours ago and not ended
   is selected by exactly one of the auto-vanish sweep and the expiry sweep,
   the instant expiresAt = now included. *)
C30_Partition ==
  BothFound =>
    \A r \in RoomCodes : LockedPastGrace(r) => (SweepSelects(r) <=> ~ExpirySelects(r))

(* C30, amended: such a room is never selected by both sweeps; it is selected
   by exactly one of them whenever expiresAt differs from now (the auto-vanish
   sweep when expiresAt is ahead, the expiry sweep when it has passed), and by
   neither at the instant expiresAt equals now. *)
C30_ExclusiveSelection ==
  BothFound =>
    \A r \in RoomCodes : LockedPastGrace(r) =>
      /\ ~(SweepSelects(r) /\ ExpirySelects(r))
      /\ rooms[r].expiresAt > now => SweepSelects(r) /\ ~ExpirySelects(r)
      /\ rooms[r].expiresAt < now => ExpirySelects(r) /\ ~SweepSelects(r)
      /\ rooms[r].expiresAt = now => ~SweepSelects(r) /\ ~ExpirySelects(r)

\* both finds have returned: one room went to the sweep, the other, whose
\* expiresAt is the instant itself, to neither
C30_Witness ==
  /\ BothFound
  /\ LockedPastGrace("1001") /\ rooms["1001"].expiresAt > now /\ SweepSelects("1001")
  /\ LockedPastGrace("1002") /\ rooms["1002"].expiresAt = now
  /\ ~SweepSelects("1002") /\ ~ExpirySelects("1002")

\* the steps of the expiry sweep logged for room r
SweepSteps(r) ==
  {hist.purge[r][i].step : i \in {j \in DOMAIN hist.purge[r] :
                                    hist.purge[r][j].by = "cleanupExpiredRooms"}}

(* C31: one pass of the expiry sweep deletes room records only of rooms in
   its selected batch (the rooms whose messages it deletes), and every room
   record it deletes has had its files purged in that pass, also when more
   rooms have expired than one batch holds. *)
C31_SweepDeletesItsBatch ==
  [][\A t \in Tasks : pc[t] = "cleanup_delete" /\ loc'[t] # loc[t] =>
       \A r \in RoomCodes : rooms[r] # NoRoom /\ rooms'[r] = NoRoom =>
         r \in loc[t].roomCodes /\ "files" \in SweepSteps(r)]_vars

(* C32: every message that is stored carries an expiry, and it is the
   expiresAt of its room when the message was created; no message is stored
   without one, in particular not when the room record is absent by then. *)
C32_MessageExpiryMirrorsRoom ==
  [][\A m \in MsgIds : msgs[m] = NoMsg /\ msgs'[m] # NoMsg =>
       /\ msgs'[m].expiresAt # NoDate
       /\ RoomExists(msgs'[m].roomCode) =>
            msgs'[m].expiresAt = rooms[msgs'[m].roomCode].expiresAt]_vars

(* C33: when update_nickname completes for user U in room R, U's session
   nickname, U's presence-hash nickname and the nickname of every stored
   message of U in R are the newly resolved nickname; the messages of other
   users and U's messages in other rooms are unchanged; and the resolved
   nickname equals, case-insensitively, no nickname held in R by another user. *)
C33_RenameRewritesOwnHistory ==
  [][\A t \in Tasks : pc[t] = "nick_messages" /\ pc'[t] = "idle" =>
       LET c == tconn[t]
           U == user[c].userId
           R == user[c].roomCode
           resolved == loc[t].uniqueNickname
       IN  /\ user'[c].nickname = resolved
           /\ userHash'[U] # NoHash => userHash'[U].nickname = resolved
           /\ \A m \in MsgIds :
                IF msgs[m] # NoMsg /\ msgs[m].userId = U /\ msgs[m].roomCode = R
                THEN msgs'[m].nickname = resolved
                ELSE msgs'[m] = msgs[m]
           /\ toLowerCase(resolved) \notin HeldByOthers(R, U)']_vars

\* task t runs handleUserLeaveRoom for a disconnect
LeavingByDisconnect(t) ==
  /\ pc[t] = "leave_cleanup"
  /\ "shouldEmitRoomLeft" \in DOMAIN loc[t]
  /\ ~loc[t].shouldEmitRoomLeft

(* C34: a disconnect of a joined connection performs the leave side effects
   of an explicit leave: the user is out of the room's presence set, the
   connection is out of the group, user_left and a userCount are broadcast
   to the room, the session's room code is cleared; and no roomLeft
   confirmation is sent. *)
C34_DisconnectLeavesQuietly ==
  [][\A t \in Tasks : LeavingByDisconnect(t) /\ pc'[t] = "idle" =>
       LET c == tconn[t] r == loc[t].roomId IN
         /\ user[c].userId \notin presence'[r]
         /\ c \notin group'[r]
         /\ Emit("user_left", r, 0) \in emitted'
         /\ \E n \in 0 .. Cardinality(Conns) : Emit("userCount", r, n) \in emitted'
         /\ user'[c].roomCode = NoCode
         /\ out'[t].res # "roomLeft"]_vars

\* u2's connection was in room 1001 and has disconnected; the other member
\* is still there
C34_Witness ==
  /\ out["t2"].res = "disconnected"
  /\ user["c2"].roomCode = NoCode
  /\ group["1001"] = {"c1"}
  /\ Emit("user_left", "1001", 0) \in emitted

(* C35: the userCount broadcast after a join or a leave is the number of
   live connections in the room's group, also when the presence set of the
   coordination store holds a different number of entries. *)
C35_CountFollowsConnections ==
  [][\A r \in RoomCodes, n \in 0 .. Cardinality(Conns) :
       Emit("userCount", r, n) \in emitted' \ emitted => n = Cardinality(group'[r])]_vars

(* C36: reactions are a per-emoji set under concurrency. Each user's calls
   run one after the other and calls of different users commute, so the
   outcome of any sequential order is: a user is listed under an emoji exactly
   when the user's last completed call for it was an add. When no call is in
   flight the stored reactions of the message are that outcome (no reaction
   is lost), no userId occurs twice under an emoji, and no emoji has an empty
   list. *)
C36_ReactionsAreSets ==
  (\A t \in Tasks : pc[t] = "idle") /\ msgs[1] # NoMsg =>
    /\ \A e \in Emojis, u \in Users :
         Includes(UserIdsOf(msgs[1].reactions, e), u) <=> hist.lastReaction[u][e] = "add"
    /\ \A x \in msgs[1].reactions :
         /\ x.userIds # <<>>
         /\ \A i, j \in DOMAIN x.userIds : x.userIds[i] = x.userIds[j] => i = j

(* C37: editMessage and edit_message change a message's content and
   editedAt only when the requester's authenticated userId is the message's
   userId; the request of any other user, the room's owner included, is
   rejected and changes no message; the author's edit is accepted and
   written whether or not the room is locked. *)
C37_OnlyAuthorEdits ==
  [][/\ \A m \in MsgIds :
          (/\ msgs[m] # NoMsg /\ msgs'[m] # NoMsg
           /\ (msgs'[m].content # msgs[m].content \/ msgs'[m].editedAt # msgs[m].editedAt))
            => \E t \in Tasks : /\ pc[t] = "edit_save" /\ pc'[t] = "idle"
                                /\ loc[t].messageId = m
                                /\ AuthUserId(tconn[t]) = msgs[m].userId
     /\ \A t \in Tasks :
          (pc[t] = "edit_find" /\ pc'[t] # pc[t] /\ msgs[loc[t].messageId] # NoMsg) =>
            IF AuthUserId(tconn[t]) = msgs[loc[t].messageId].userId
            THEN pc'[t] = "edit_save"
            ELSE out'[t].res = "edit_unauthorized" /\ msgs' = msgs
     /\ \A t \in Tasks :
          (pc[t] = "edit_save" /\ pc'[t] # pc[t] /\ msgs[loc[t].messageId] # NoMsg) =>
            /\ msgs'[loc[t].messageId].content = loc[t].content
            /\ msgs'[loc[t].messageId].editedAt = loc[t].editedAt
            /\ out'[t].res = "messageEdited"]_vars

\* in the locked room 1001 u2 has edited their message, and the owner u1,
\* who asked to edit a message of u2, was turned away
C37_Witness ==
  /\ rooms["1001"].isLocked
  /\ msgs[2].editedAt # NoDate /\ msgs[2].content = <<"h", "h">>
  /\ \E t \in Tasks : tconn[t] = "c1" /\ out[t].res = "edit_unauthorized"

(* C38: no orphan messages: in every reachable state the room of every
   stored message has its record; a sendMessage that interleaves with or
   follows the deletion of its room leaves no message stored for it. *)
C38_NoOrphanMessages ==
  \A m \in MsgIds : msgs[m] # NoMsg => rooms[msgs[m].roomCode] # NoRoom

\* adminVanishRoom has returned for room r
VanishReturned(r) ==
  \E i \in DOMAIN hist.purge[r] :
    hist.purge[r][i].by = "adminVanishRoom" /\ hist.purge[r][i].step = "audit"

(* C39: once adminVanishRoom has returned for a room, no connection is
   registered in that room's group, a connection whose joinRoom overlaps
   the vanish included. *)
C39_VanishedRoomHasNoMembers ==
  \A r \in RoomCodes : VanishReturned(r) => group[r] = {}

\* the requester of task t is the owner of the room message m belongs to
RequesterOwnsRoomOf(t, m) ==
  /\ RoomExists(msgs[m].roomCode)
  /\ rooms[msgs[m].roomCode].ownerId = auth[tconn[t]]

(* C40: a deleteMessage request changes or removes a message only when its
   requester is the author of the message or the owner of the room the
   message belongs to; owning the room named by the request's roomId does
   not count when the message is of another room. *)
C40_ModerationStaysInOwnRoom ==
  [][\A t \in Tasks :
       LET m == loc[t].messageId IN
         (pc[t] = "del_apply" /\ pc'[t] # "del_apply" /\ msgs'[m] # msgs[m])
           => \/ msgs[m].userId = auth[tconn[t]]
              \/ RequesterOwnsRoomOf(t, m)]_vars

====
